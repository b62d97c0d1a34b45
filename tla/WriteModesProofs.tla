--------------------------- MODULE WriteModesProofs ---------------------------
(***************************************************************************)
(* Proofs about WriteModes, for any keys, values and partitions, batches   *)
(* of any size and any number of writes.                                   *)
(***************************************************************************)
EXTENDS WriteModes, FiniteSetTheorems, TLAPS

-----------------------------------------------------------------------------
(***************************************************************************)
(* Type correctness.                                                       *)
(***************************************************************************)

\* A write that has begun has a number.
Numbered == phase \in {"write", "half"} => seq \in 1 .. MaxWrites

TypeInv == TypeOK /\ Numbered

\* The rows a write inserts are target rows.
LEMMA InsertedType ==
  ASSUME NEW S, S \subseteq SourceRows, seq \in 1 .. MaxWrites
  PROVE  Inserted(S) \subseteq TargetRows
  BY WriteConstants DEF Inserted, Stored, SourceRows, TargetRows

\* Deduplication yields some of the rows it is given.
LEMMA PreparedSubset ==
  ASSUME NEW S, S \subseteq SourceRows, NEW B \in Prepared(S)
  PROVE  B \subseteq SourceRows
  <1>1. CASE plan.ordered
    BY <1>1 DEF Prepared, DeduplicateByOrder
  <1>2. CASE ~plan.ordered
    BY <1>2 DEF Prepared
  <1>3. QED
    BY <1>1, <1>2

LEMMA ReadsType ==
  ASSUME NEW S \in Reads
  PROVE  S \subseteq SourceRows
  BY DEF Reads, Fed, kSubset

\* What the three MERGEs make of a row they match is a target row of its key
\* and identity.
LEMMA UpdatedType ==
  ASSUME NEW t \in TargetRows, NEW s \in SourceRows, s.key = t.key, seq \in 1 .. MaxWrites
  PROVE  /\ Updated(t, s) \in TargetRows
         /\ Updated(t, s).key = t.key
         /\ Updated(t, s).born = t.born
  <1>1. Updated(t, s) = [key |-> s.key, val |-> s.val, part |-> s.part,
                         seq |-> seq, born |-> t.born, until |-> 0]
    BY DEF Updated, Stored
  <1>2. s.val \in Values /\ s.part \in Parts
    BY DEF SourceRows
  <1>3. t.key \in Keys \cup {Null} /\ t.born \in 1 .. MaxWrites
    BY DEF TargetRows
  <1>4. 0 \in 0 .. MaxWrites
    BY WriteConstants
  <1>5. QED
    BY <1>1, <1>2, <1>3, <1>4 DEF TargetRows

LEMMA SnapshotRowType ==
  ASSUME NEW t \in TargetRows, batch \subseteq SourceRows, seq \in 1 .. MaxWrites
  PROVE  /\ SnapshotRow(t) \in TargetRows
         /\ SnapshotRow(t).key = t.key
         /\ SnapshotRow(t).born = t.born
  <1> DEFINE matching == {s \in batch : s.key = t.key}
             chosen == CHOOSE s \in matching : TRUE
  <1>1. CASE matching = {}
    <2>1. [t EXCEPT !.until = seq] \in TargetRows
      BY WriteConstants DEF TargetRows
    <2>2. SnapshotRow(t) \in {t, [t EXCEPT !.until = seq]}
      BY <1>1 DEF SnapshotRow
    <2>3. QED
      BY <2>1, <2>2 DEF TargetRows
  <1>2. CASE matching # {}
    <2>1. chosen \in SourceRows /\ chosen.key = t.key
      BY <1>2
    <2>2. SnapshotRow(t) \in {t, Updated(t, chosen)}
      BY <1>2 DEF SnapshotRow
    <2>3. QED
      BY <2>1, <2>2, UpdatedType
  <1>3. QED
    BY <1>1, <1>2

LEMMA ClosedType ==
  ASSUME NEW t \in TargetRows, seq \in 1 .. MaxWrites
  PROVE  /\ Closed(t) \in TargetRows
         /\ Closed(t).key = t.key
         /\ Closed(t).born = t.born
  <1>1. Closed(t) \in {t, [t EXCEPT !.until = seq]}
    BY DEF Closed
  <1>2. QED
    BY <1>1, WriteConstants DEF TargetRows

\* What a write promises consists of source rows.
LEMMA AppliedType ==
  ASSUME NEW C, C \subseteq SourceRows, NEW B, B \subseteq SourceRows
  PROVE  Applied(C, B) \subseteq SourceRows
  BY DEF Applied, Put

\* Every step keeps the types, commits of target rows included.
LEMMA CommitType ==
  ASSUME TypeInv, NEW T, T \subseteq TargetRows, Commit(T)
  PROVE  TypeInv'
  <1>1. written' \subseteq SourceRows
    BY AppliedType DEF TypeInv, TypeOK, Commit
  <1>2. QED
    BY <1>1 DEF TypeInv, TypeOK, Numbered, Commit, Resting

LEMMA TypeStep == TypeInv /\ [Next]_vars => TypeInv'
  <1> SUFFICES ASSUME TypeInv, [Next]_vars PROVE TypeInv'
    OBVIOUS
  <1>0. /\ table \subseteq TargetRows
        /\ batch \subseteq SourceRows
        /\ phase \in {"write", "half"} => seq \in 1 .. MaxWrites
    BY DEF TypeInv, TypeOK, Numbered
  <1>1. CASE Prepare
    <2>1. PICK S \in Reads : batch' \in Prepared(S)
      BY <1>1 DEF Prepare
    <2>2. batch' \subseteq SourceRows
      BY <2>1, ReadsType, PreparedSubset
    <2>3. seq' \in 1 .. MaxWrites
      BY <1>1, WriteConstants DEF Prepare, TypeInv, TypeOK
    <2>4. phase' \in {"failed", "done", "write"}
      BY <1>1 DEF Prepare
    <2>5. QED
      BY <1>1, <2>2, <2>3, <2>4 DEF Prepare, TypeInv, TypeOK, Numbered, Resting
  <1>2. CASE Refuse \/ Fail
    BY <1>2 DEF Refuse, Fail, TypeInv, TypeOK, Numbered, Resting
  <1>3. CASE FallbackDelete
    BY <1>3 DEF FallbackDelete, Writing, TypeInv, TypeOK, Numbered, Resting
  <1>4. CASE Retry
    BY <1>4 DEF Retry, TypeInv, TypeOK, Numbered, Resting
  <1>5. CASE WriteAppend \/ WriteOverwrite \/ FallbackAppend
    <2>1. phase \in {"write", "half"}
      BY <1>5 DEF WriteAppend, WriteOverwrite, FallbackAppend, Writing
    <2>2. Inserted(batch) \subseteq TargetRows
      BY <2>1, <1>0, InsertedType
    <2>3. \/ Refuse
          \/ Commit(table \cup Inserted(batch))
          \/ Commit((table \ Replaceable) \cup Inserted(batch))
      BY <1>5 DEF WriteAppend, WriteOverwrite, FallbackAppend
    <2>4. QED
      BY <2>2, <2>3, <1>0, <1>2, CommitType
  <1>6. CASE WriteUpsert
    <2>1. PICK vals \in AffectedPartitionValues :
             Commit(    {t \in table : \A s \in batch : ~Matches(t, s, vals)}
                   \cup {Updated(m[1], m[2]) :
                           m \in {n \in table \X batch : Matches(n[1], n[2], vals)}}
                   \cup Inserted({s \in batch : \A t \in table : ~Matches(t, s, vals)}))
      BY <1>6 DEF WriteUpsert
    <2>2. seq \in 1 .. MaxWrites
      BY <1>6, <1>0 DEF WriteUpsert, Writing
    <2>3. {Updated(m[1], m[2]) :
             m \in {n \in table \X batch : Matches(n[1], n[2], vals)}} \subseteq TargetRows
      BY <2>2, <1>0, UpdatedType DEF Matches
    <2>4. Inserted({s \in batch : \A t \in table : ~Matches(t, s, vals)}) \subseteq TargetRows
      BY <2>2, <1>0, InsertedType
    <2>5. QED
      BY <2>1, <2>3, <2>4, <1>0, CommitType
  <1>7. CASE ReplacePartitions
    <2>1. PICK vals \in AffectedPartitionValues :
             Refuse \/ Commit({t \in table : t.part \notin vals} \cup Inserted(batch))
      BY <1>7 DEF ReplacePartitions
    <2>2. Inserted(batch) \subseteq TargetRows
      BY <1>7, <1>0, InsertedType DEF ReplacePartitions, Writing
    <2>3. QED
      BY <2>1, <2>2, <1>0, <1>2, CommitType
  <1>8. CASE WriteHashDiff
    <2>0. PICK vals \in AffectedPartitionValues : \E latest \in LatestRows(vals) :
             Commit(table \cup Inserted({s \in batch : ~Unchanged(s, latest)}))
      BY <1>8 DEF WriteHashDiff
    <2>1. PICK latest \in LatestRows(vals) :
             Commit(table \cup Inserted({s \in batch : ~Unchanged(s, latest)}))
      BY <2>0
    <2>2. Inserted({s \in batch : ~Unchanged(s, latest)}) \subseteq TargetRows
      BY <1>8, <1>0, InsertedType DEF WriteHashDiff, Writing
    <2>3. QED
      BY <2>1, <2>2, <1>0, CommitType
  <1>9. CASE WriteSnapshot
    <2>1. seq \in 1 .. MaxWrites
      BY <1>9, <1>0 DEF WriteSnapshot, Writing
    <2>2. {SnapshotRow(t) : t \in table} \subseteq TargetRows
      BY <2>1, <1>0, SnapshotRowType
    <2>3. Inserted({s \in batch : s.key \notin KeysOf(table)}) \subseteq TargetRows
      BY <2>1, <1>0, InsertedType
    <2>4. QED
      BY <1>9, <2>2, <2>3, CommitType DEF WriteSnapshot
  <1>10. CASE WriteScd2
    <2> DEFINE unmatched == {h \in Staged : \A t \in table : h \notin StagedFor(t)}
    <2>1. seq \in 1 .. MaxWrites
      BY <1>10, <1>0 DEF WriteScd2, Writing
    <2>2. {Closed(t) : t \in table} \subseteq TargetRows
      BY <2>1, <1>0, ClosedType
    <2>3. {g.row : g \in unmatched} \subseteq SourceRows
      BY <1>0 DEF Staged, Changed
    <2>4. Inserted({g.row : g \in unmatched}) \subseteq TargetRows
      BY <2>1, <2>3, InsertedType
    <2>5. Inserted(batch) \subseteq TargetRows
      BY <2>1, <1>0, InsertedType
    <2>6. \/ Refuse
          \/ Commit(Inserted(batch))
          \/ Commit({Closed(t) : t \in table} \cup Inserted({g.row : g \in unmatched}))
      BY <1>10 DEF WriteScd2
    <2>7. QED
      BY <2>2, <2>4, <2>5, <2>6, <1>2, CommitType
  <1>11. CASE UNCHANGED vars
    BY <1>11 DEF vars, TypeInv, TypeOK, Numbered
  <1>12. QED
    BY <1>1, <1>2, <1>3, <1>4, <1>5, <1>6, <1>7, <1>8, <1>9, <1>10, <1>11 DEF Next

LEMMA TypeInit == Init => TypeInv
  BY WriteConstants DEF Init, TypeInv, TypeOK, Numbered, Resting

LEMMA TypeInvariant == Spec => []TypeInv
  BY TypeInit, TypeStep, PTL DEF Spec

\* Every variable keeps its type: the rows of the target carry the number of
\* a write that has begun (execute_write_mode).
THEOREM WritesTypeCorrect == Spec => []TypeOK
  <1>1. TypeInv => TypeOK
    BY DEF TypeInv
  <1>2. QED
    BY <1>1, TypeInvariant, PTL
-----------------------------------------------------------------------------
(***************************************************************************)
(* One row per key, for contracts with merge_strategy "delta".             *)
(***************************************************************************)

\* What _validate_merge_source_safety leaves to a MERGE, and who is between
\* two commits.
BatchUnique ==
    /\ (phase \in {"write", "half"} /\ plan.mode \in Merges) => OneRowEach(batch)
    /\ phase = "half" => plan.mode = "scd0_overwrite"

KeyInv == TypeInv /\ BatchUnique /\ OneRowPerKey

LEMMA StoredFields ==
  ASSUME NEW s
  PROVE  Stored(s).key = s.key /\ Stored(s).until = 0
  BY DEF Stored

LEMMA BatchUniqueStep == TypeInv /\ BatchUnique /\ [Next]_vars => BatchUnique'
  <1> SUFFICES ASSUME TypeInv, BatchUnique, [Next]_vars PROVE BatchUnique'
    OBVIOUS
  <1>1. CASE Prepare
    <2>1. plan' = plan
      BY <1>1 DEF Prepare
    <2>2. phase' # "half" /\ (phase' = "write" => ~Refused(batch'))
      BY <1>1 DEF Prepare
    <2>3. QED
      BY <2>1, <2>2 DEF BatchUnique, Refused
  <1>2. CASE /\ UNCHANGED <<plan, batch>>
             /\ phase \in {"write", "half"}
             /\ phase' = "half" => plan.mode = "scd0_overwrite"
    BY <1>2 DEF BatchUnique, OneRowEach
  <1>3. CASE UNCHANGED vars
    BY <1>3 DEF vars, BatchUnique, OneRowEach
  <1>4. QED
    BY <1>1, <1>2, <1>3 DEF Next, WriteAppend, WriteOverwrite, FallbackDelete, FallbackAppend,
       WriteUpsert, ReplacePartitions, WriteHashDiff, WriteSnapshot, WriteScd2, Fail, Retry,
       Writing, Commit, Refuse

\* A MERGE of rows with distinct keys keeps keys distinct.
LEMMA UpsertKeepsKeys ==
  ASSUME TypeInv, OneRowEach(batch), OneRowEach(table), plan.strategy = "delta", WriteUpsert
  PROVE  OneRowEach(table')
  <1>1. PICK vals \in AffectedPartitionValues :
           table' =    {t \in table : \A s \in batch : ~Matches(t, s, vals)}
                  \cup {Updated(m[1], m[2]) :
                          m \in {n \in table \X batch : Matches(n[1], n[2], vals)}}
                  \cup Inserted({s \in batch : \A t \in table : ~Matches(t, s, vals)})
    BY DEF WriteUpsert, Commit
  <1>2. /\ table \subseteq TargetRows
        /\ batch \subseteq SourceRows
        /\ seq \in 1 .. MaxWrites
    BY DEF TypeInv, TypeOK, Numbered, WriteUpsert, Writing
  <1>3. \A t, s : Matches(t, s, vals) <=> t.key = s.key
    BY DEF Matches
  <1> DEFINE Kept(x) == x \in table /\ \A s \in batch : s.key # x.key
             Set(x, t, s) == t \in table /\ s \in batch /\ s.key = t.key /\ x = Updated(t, s)
             New(x, s) == s \in batch /\ x = Stored(s) /\ \A t \in table : t.key # s.key
  <1>4. ASSUME NEW x \in table'
        PROVE  Kept(x) \/ (\E t, s : Set(x, t, s)) \/ (\E s : New(x, s))
    BY <1>1, <1>3 DEF Inserted
  <1>5. ASSUME NEW x, NEW t, NEW s, Set(x, t, s) PROVE x.key = s.key
    BY <1>2, <1>5, UpdatedType
  <1>6. ASSUME NEW x, NEW s, New(x, s) PROVE x.key = s.key
    BY <1>6, StoredFields
  <1> SUFFICES ASSUME NEW x \in table', NEW y \in table', x.key = y.key PROVE x = y
    BY DEF OneRowEach
  <1> HIDE DEF Kept, Set, New
  <1>7. CASE Kept(x)
    <2>1. ~\E t, s : Set(y, t, s)
      BY <1>5, <1>7 DEF Kept, Set
    <2>2. ~\E s : New(y, s)
      BY <1>6, <1>7 DEF Kept, New
    <2>3. Kept(y)
      BY <1>4, <2>1, <2>2
    <2>4. QED
      BY <1>7, <2>3 DEF Kept, OneRowEach
  <1>8. ASSUME NEW t, NEW s, Set(x, t, s) PROVE x = y
    <2>1. x.key = s.key /\ s \in batch /\ t \in table /\ t.key = s.key
      BY <1>5, <1>8 DEF Set
    <2>2. ~Kept(y)
      BY <2>1 DEF Kept
    <2>3. ~\E c : New(y, c)
      BY <2>1, <1>6 DEF New
    <2>4. PICK u, c : Set(y, u, c)
      BY <1>4, <2>2, <2>3
    <2>5. y.key = c.key /\ c \in batch /\ u \in table /\ u.key = c.key
      BY <1>5, <2>4 DEF Set
    <2>6. u = t /\ c = s
      BY <2>1, <2>5 DEF OneRowEach
    <2>7. QED
      BY <1>8, <2>4, <2>6 DEF Set
  <1>9. ASSUME NEW s, New(x, s) PROVE x = y
    <2>1. x.key = s.key /\ s \in batch /\ \A t \in table : t.key # s.key
      BY <1>6, <1>9 DEF New
    <2>2. y \notin table
      BY <2>1
    <2>3. ASSUME NEW u, NEW c, Set(y, u, c) PROVE FALSE
      <3>1. y.key = c.key /\ c.key = u.key /\ u \in table
        BY <1>5, <2>3 DEF Set
      <3>2. QED
        BY <2>1, <3>1
    <2>4. PICK c : New(y, c)
      BY <1>4, <2>2, <2>3 DEF Kept
    <2>5. y.key = c.key /\ c \in batch
      BY <1>6, <2>4 DEF New
    <2>6. c = s
      BY <2>1, <2>5 DEF OneRowEach
    <2>7. QED
      BY <1>9, <2>4, <2>6 DEF New
  <1>10. QED
    BY <1>4, <1>7, <1>8, <1>9

LEMMA SnapshotKeepsKeys ==
  ASSUME TypeInv, OneRowEach(batch), OneRowEach(table), WriteSnapshot
  PROVE  OneRowEach(table')
  <1>1. table' = {SnapshotRow(t) : t \in table}
                 \cup Inserted({s \in batch : s.key \notin KeysOf(table)})
    BY DEF WriteSnapshot, Commit
  <1>2. \A t \in table : SnapshotRow(t).key = t.key
    BY SnapshotRowType DEF TypeInv, TypeOK, Numbered, WriteSnapshot, Writing
  <1> DEFINE Old(x, t) == t \in table /\ x = SnapshotRow(t)
             New(x, s) == s \in batch /\ x = Stored(s) /\ \A t \in table : t.key # s.key
  <1>3. ASSUME NEW x \in table' PROVE (\E t : Old(x, t)) \/ (\E s : New(x, s))
    BY <1>1 DEF Inserted, KeysOf
  <1> SUFFICES ASSUME NEW x \in table', NEW y \in table', x.key = y.key PROVE x = y
    BY DEF OneRowEach
  <1>4. ASSUME NEW t, Old(x, t), NEW u, Old(y, u) PROVE x = y
    BY <1>2, <1>4 DEF OneRowEach
  <1>5. ASSUME NEW s, New(x, s), NEW c, New(y, c) PROVE x = y
    BY <1>5, StoredFields DEF OneRowEach
  <1>6. ASSUME NEW t, Old(x, t), NEW c, New(y, c) PROVE FALSE
    BY <1>2, <1>6, StoredFields
  <1>7. ASSUME NEW s, New(x, s), NEW u, Old(y, u) PROVE FALSE
    BY <1>2, <1>7, StoredFields
  <1>8. QED
    BY <1>3, <1>4, <1>5, <1>6, <1>7

\* A row staged for insertion whose key has a current row is staged a second
\* time, to close that row; without a key it matches the current row itself.
LEMMA Scd2KeepsKeys ==
  ASSUME TypeInv, OneRowEach(batch), OneRowEach(CurrentRows), WriteScd2
  PROVE  OneRowEach(CurrentRows')
  <1> DEFINE unmatched == {h \in Staged : \A t \in table : h \notin StagedFor(t)}
  <1>1. /\ table \subseteq TargetRows
        /\ batch \subseteq SourceRows
        /\ seq \in 1 .. MaxWrites
    BY DEF TypeInv, TypeOK, Numbered, WriteScd2, Writing
  <1>2. CASE table' = table
    BY <1>2 DEF CurrentRows
  <1>3. CASE table' = Inserted(batch)
    BY <1>3, StoredFields DEF Inserted, CurrentRows, OneRowEach
  <1>4. CASE table' = {Closed(t) : t \in table} \cup Inserted({g.row : g \in unmatched})
    <2> DEFINE Old(x) == /\ x \in CurrentRows
                         /\ \A g \in StagedFor(x) : RowHash(x) = RowHash(g.row)
               New(x, g) == g \in unmatched /\ x = Stored(g.row)
    <2>1. ASSUME NEW x \in CurrentRows' PROVE Old(x) \/ \E g : New(x, g)
      <3>1. x \in table' /\ x.until = 0
        BY DEF CurrentRows
      <3>2. CASE x \in Inserted({g.row : g \in unmatched})
        BY <3>2 DEF Inserted
      <3>3. ASSUME NEW t \in table, x = Closed(t) PROVE Old(x)
        <4>1. [t EXCEPT !.until = seq].until # 0
          BY <1>1 DEF TargetRows
        <4>2. /\ ~\E g \in StagedFor(t) : RowHash(t) # RowHash(g.row)
              /\ x = t
          BY <3>1, <3>3, <4>1 DEF Closed
        <4>3. QED
          BY <3>1, <4>2 DEF CurrentRows
      <3>4. QED
        BY <1>4, <3>1, <3>2, <3>3
    <2>2. ASSUME NEW g \in Staged
          PROVE  g.row \in batch /\ g.row \in Changed /\ g.mergeKey \in {Null, g.row.key}
      BY DEF Staged, Changed
    <2>3. ASSUME NEW x, NEW g, Old(x), g \in unmatched, g.row.key = x.key PROVE FALSE
      <3>1. x \in table /\ x.until = 0 /\ g \in Staged /\ g \notin StagedFor(x)
        BY <2>3 DEF CurrentRows
      <3>2. CASE x.key = Null
        BY <2>2, <2>3, <3>1, <3>2 DEF StagedFor
      <3>3. CASE x.key # Null
        <4>1. x \in Previous(g.row) /\ Previous(g.row) # {}
          BY <2>3, <3>1, <3>3 DEF Previous
        <4>2. PICK u \in Previous(g.row) : RowHash(u) # RowHash(g.row)
          <5>1. g.row \in Changed
            BY <2>2, <3>1
          <5> DEFINE r == g.row
          <5>2. Previous(r) = {} \/ \E u \in Previous(r) : RowHash(u) # RowHash(r)
            <6> HIDE DEF r
            <6>1. r \in Changed
              BY <5>1 DEF r
            <6>2. QED
              BY <6>1 DEF Changed
          <5>3. QED
            BY <4>1, <5>2
        <4>3. u = x
          BY <2>3, <4>2 DEF Previous, OneRowEach
        <4> DEFINE again == [row |-> g.row, mergeKey |-> g.row.key]
        <4>4. again \in Staged
          BY <2>2, <3>1, <4>1 DEF Staged
        <4>5. again \in StagedFor(x)
          BY <2>3, <3>1, <4>4 DEF StagedFor
        <4>6. RowHash(x) = RowHash(again.row)
          BY <2>3, <4>5
        <4>7. QED
          BY <4>2, <4>3, <4>6
      <3>4. QED
        BY <3>2, <3>3
    <2> SUFFICES ASSUME NEW x \in CurrentRows', NEW y \in CurrentRows', x.key = y.key
                 PROVE  x = y
      BY DEF OneRowEach
    <2> HIDE DEF Old
    <2>4. CASE Old(x) /\ Old(y)
      BY <2>4 DEF Old, OneRowEach
    <2>5. ASSUME NEW g, New(x, g), NEW h, New(y, h) PROVE x = y
      <3>0. g \in Staged /\ h \in Staged
        BY <2>5
      <3>1. g.row \in batch /\ h.row \in batch
        BY <2>2, <3>0
      <3>2. g.row.key = x.key /\ h.row.key = y.key
        BY <2>5, StoredFields
      <3>3. g.row = h.row
        BY <3>1, <3>2 DEF OneRowEach
      <3>4. QED
        BY <2>5, <3>3
    <2>6. ASSUME Old(x), NEW h, New(y, h) PROVE FALSE
      BY <2>3, <2>6, StoredFields
    <2>7. ASSUME Old(y), NEW g, New(x, g) PROVE FALSE
      BY <2>3, <2>7, StoredFields
    <2>8. QED
      BY <2>1, <2>4, <2>5, <2>6, <2>7
  <1>5. QED
    BY <1>2, <1>3, <1>4 DEF WriteScd2, Commit, Refuse

LEMMA KeyStep ==
  ASSUME \A p \in Plans : p.strategy = "delta", KeyInv, [Next]_vars
  PROVE  KeyInv'
  <1>1. TypeInv' /\ BatchUnique'
    BY TypeStep, BatchUniqueStep DEF KeyInv
  <1>2. plan' = plan /\ plan.strategy = "delta"
    BY DEF KeyInv, TypeInv, TypeOK, Next, vars, Prepare, WriteAppend, WriteOverwrite,
       FallbackDelete, FallbackAppend, WriteUpsert, ReplacePartitions, WriteHashDiff,
       WriteSnapshot, WriteScd2, Fail, Retry, Writing, Commit, Refuse
  <1>3. \/ table' = table \/ plan.mode \notin Merges
        \/ WriteUpsert \/ WriteSnapshot \/ WriteScd2
    BY <1>2 DEF KeyInv, BatchUnique, Next, vars, Prepare, WriteAppend, WriteOverwrite,
       FallbackDelete, FallbackAppend, ReplacePartitions, WriteHashDiff, Fail, Retry, Writing,
       Commit, Refuse, Merges
  <1>4. /\ plan.mode \in {"scd1_upsert", "snapshot_soft_delete"} => OneRowEach(table')
        /\ plan.mode = "scd2_historical" => OneRowEach(CurrentRows')
    <2>1. CASE table' = table
      BY <2>1 DEF KeyInv, OneRowPerKey, CurrentRows
    <2>2. CASE plan.mode \notin Merges
      BY <2>2 DEF Merges
    <2>3. ASSUME plan.mode \in Merges, WriteUpsert \/ WriteSnapshot \/ WriteScd2
          PROVE  phase = "write" /\ OneRowEach(batch) /\ TypeInv /\ OneRowPerKey
      BY <2>3 DEF WriteUpsert, WriteSnapshot, WriteScd2, Writing, KeyInv, BatchUnique
    <2>4. CASE plan.mode \in Merges /\ WriteUpsert
      BY <2>3, <2>4, <1>2, UpsertKeepsKeys DEF WriteUpsert, Writing, OneRowPerKey
    <2>5. CASE plan.mode \in Merges /\ WriteSnapshot
      BY <2>3, <2>5, SnapshotKeepsKeys DEF WriteSnapshot, Writing, OneRowPerKey
    <2>6. CASE plan.mode \in Merges /\ WriteScd2
      BY <2>3, <2>6, Scd2KeepsKeys DEF WriteScd2, Writing, OneRowPerKey
    <2>7. QED
      BY <1>3, <2>1, <2>2, <2>4, <2>5, <2>6
  <1>5. OneRowPerKey'
    BY <1>2, <1>4 DEF OneRowPerKey, OneRowEach
  <1>6. QED
    BY <1>1, <1>5 DEF KeyInv

\* With merge_strategy "delta", upsert and snapshot keep one row of a key and
\* SCD2 one current row, whatever the source sends: NULL keys and keys that
\* change partition included (write_upsert, write_snapshot_soft_delete,
\* write_scd2).
THEOREM KeysStayUnique ==
  ASSUME \A p \in Plans : p.strategy = "delta"
  PROVE  Spec => []OneRowPerKey
  <1>1. Init => KeyInv
    BY TypeInit DEF Init, KeyInv, BatchUnique, OneRowPerKey, OneRowEach, CurrentRows
  <1>2. KeyInv /\ [Next]_vars => KeyInv'
    BY KeyStep
  <1>3. KeyInv => OneRowPerKey
    BY DEF KeyInv
  <1>4. QED
    BY <1>1, <1>2, <1>3, PTL DEF Spec
-----------------------------------------------------------------------------
(***************************************************************************)
(* History.                                                                *)
(***************************************************************************)

\* A step of append, hash diff or SCD2 leaves every stored version as it is
\* or closes one that was current (write_append, write_scd1_hash_diff,
\* write_scd2).
THEOREM HistoryIsKept == Spec => HistoryKept
  <1> DEFINE Kept == plan.mode \in {"scd0_append", "scd1_hash_diff", "scd2_historical"} =>
                 \A t \in table \ table' : t.until = 0 /\ [t EXCEPT !.until = seq] \in table'
  <1>1. TypeInv /\ BatchUnique /\ [Next]_vars => Kept
    <2> SUFFICES ASSUME TypeInv, BatchUnique, [Next]_vars,
                        plan.mode \in {"scd0_append", "scd1_hash_diff", "scd2_historical"},
                        NEW t \in table \ table'
                 PROVE  t.until = 0 /\ [t EXCEPT !.until = seq] \in table'
      OBVIOUS
    <2>1. WriteScd2
      BY DEF BatchUnique, Next, vars, Prepare, WriteAppend, WriteOverwrite, FallbackDelete,
         FallbackAppend, WriteUpsert, ReplacePartitions, WriteHashDiff, WriteSnapshot, Fail,
         Retry, Writing, Commit, Refuse
    <2>2. Closed(t) \in table'
      BY <2>1 DEF WriteScd2, Commit, Refuse
    <2>3. QED
      BY <2>2 DEF Closed, StagedFor
  <1>2. Init => BatchUnique
    BY DEF Init, BatchUnique
  <1>3. QED
    BY <1>1, <1>2, TypeInit, TypeStep, BatchUniqueStep, PTL DEF Spec, HistoryKept
-----------------------------------------------------------------------------
(***************************************************************************)
(* Versions, and what a write has done to the state shown.                 *)
(***************************************************************************)

\* The partitions of a batch are never too many for a predicate
\* (CONFIG.max_partition_predicate_values).
FewParts == IsFiniteSet(Parts) /\ Cardinality(Parts) <= MaxPredicateValues

\* Contracts whose sources send what their mode copes with.  Joins on the
\* keys find no NULL; a target read or matched by the partitions of the batch
\* hides the row of a key that has moved; a hash diff looks at the latest row
\* only while dedup_order_expr does not say otherwise.
Sound(p) ==
    /\ p.strategy = "delta_by_partition" => "move" \notin p.feeds /\ FewParts
    /\ p.mode = "scd1_hash_diff" =>
          /\ ~p.ordered /\ {"null", "dup"} \cap p.feeds = {}
          /\ p.partitioned => "move" \notin p.feeds /\ FewParts
    /\ p.mode = "scd2_historical" => "null" \notin p.feeds

\* A row is one the source may send.
Fits(x) == /\ x.key = Null => "null" \in plan.feeds
           /\ x.part # Home[x.key] => "move" \in plan.feeds

\* The batch and the target hold what the source sent, the target that of
\* earlier writes.
FedInv ==
    /\ \A x \in batch \cup table : Fits(x)
    /\ "dup" \notin plan.feeds => OneRowEach(batch)
    /\ \A t \in table : t.born <= seq /\ t.seq <= seq
    /\ phase \in {"write", "half"} => \A t \in table : t.born < seq /\ t.seq < seq

\* A write inserts one row of a key.
OneOfEachWrite == \A t, u \in table : t.key = u.key /\ t.born = u.born => t = u

\* The current row is the last version of its key.
LastIsCurrent ==
    OneRowEach(CurrentRows) /\ \A t \in table : \E c \in CurrentRows : c.key = t.key /\ t.born <= c.born

VersionRows ==
    /\ plan.mode \in {"scd1_hash_diff", "scd2_historical"} => OneOfEachWrite
    /\ plan.mode = "scd2_historical" => LastIsCurrent
    /\ plan.mode = "scd1_hash_diff" => \A t \in table : t.seq = t.born

\* The inductive invariant.
VersionInv == TypeInv /\ BatchUnique /\ FedInv /\ VersionRows /\ VersionsAreChanges

\* The first commit of the overwrite fallback leaves nothing to replace.
HalfInv == phase = "half" => Replaceable = {}

LEMMA PreparedFits ==
  ASSUME NEW S \in Reads, NEW B \in Prepared(S)
  PROVE  /\ \A x \in B : Fits(x)
         /\ "dup" \notin plan.feeds => OneRowEach(B)
  <1>1. S \subseteq Fed /\ ("dup" \in plan.feeds \/ OneRowEach(S))
    BY DEF Reads, kSubset
  <1>2. B \subseteq S
    BY DEF Prepared, DeduplicateByOrder
  <1>3. \A x \in Fed : Fits(x)
    BY DEF Fed, Fits
  <1>4. QED
    BY <1>1, <1>2, <1>3 DEF OneRowEach

\* A row of a commit.
Fine(x) == Fits(x) /\ x.born <= seq /\ x.seq <= seq

LEMMA CommitFed ==
  ASSUME FedInv, NEW T, \A x \in T : Fine(x), Commit(T)
  PROVE  FedInv'
  BY DEF FedInv, Fine, Fits, Commit, OneRowEach

LEMMA InsertedFine ==
  ASSUME TypeInv, NEW S, \A x \in S : Fits(x)
  PROVE  \A x \in Inserted(S) : Fine(x)
  BY DEF Inserted, Stored, Fine, Fits, TypeInv, TypeOK

LEMMA UpdatedFine ==
  ASSUME TypeInv, NEW t, NEW s, Fine(t), Fits(s), s.key = t.key
  PROVE  Fine(Updated(t, s))
  <1>1. Updated(t, s) = [key |-> s.key, val |-> s.val, part |-> s.part,
                         seq |-> seq, born |-> t.born, until |-> 0]
    BY DEF Updated, Stored
  <1>2. QED
    BY <1>1 DEF Fine, Fits, TypeInv, TypeOK

\* Closing a row changes nothing else of it.
LEMMA ClosingKeeps ==
  ASSUME NEW t \in TargetRows, NEW x \in {t, [t EXCEPT !.until = seq]}
  PROVE  /\ x.key = t.key /\ x.val = t.val /\ x.part = t.part
         /\ x.seq = t.seq /\ x.born = t.born
         /\ RowHash(x) = RowHash(t)
  BY DEF TargetRows, RowHash

LEMMA FedStep == TypeInv /\ FedInv /\ [Next]_vars => FedInv'
  <1> SUFFICES ASSUME TypeInv, FedInv, [Next]_vars PROVE FedInv'
    OBVIOUS
  <1>0. /\ table \subseteq TargetRows /\ seq \in Int
        /\ batch \subseteq SourceRows
        /\ \A x \in batch : Fits(x)
        /\ \A t \in table : Fine(t)
    BY DEF TypeInv, TypeOK, FedInv, Fine
  <1>1. CASE Prepare
    <2>1. PICK S \in Reads : batch' \in Prepared(S)
      BY <1>1 DEF Prepare
    <2>2. UNCHANGED <<plan, table>> /\ seq' = seq + 1
      BY <1>1 DEF Prepare
    <2>3. \A x \in batch' : Fits(x)'
      BY <2>1, <2>2, PreparedFits DEF Fits
    <2>4. ("dup" \notin plan.feeds => OneRowEach(batch))'
      BY <2>1, <2>2, PreparedFits DEF OneRowEach
    <2>5. \A t \in table : t.born < seq + 1 /\ t.seq < seq + 1
      BY <1>0 DEF Fine, TargetRows
    <2>6. \A t \in table' : Fits(t)' /\ t.born < seq' /\ t.seq < seq'
      BY <1>0, <2>2, <2>5 DEF Fine, Fits
    <2>7. \A t \in table' : t.born <= seq' /\ t.seq <= seq'
      BY <1>0, <2>2, <2>6 DEF TargetRows
    <2>8. QED
      BY <2>3, <2>4, <2>6, <2>7 DEF FedInv
  <1>2. CASE Refuse \/ Fail
    BY <1>2 DEF Refuse, Fail, FedInv, Fits, OneRowEach
  <1>3. CASE FallbackDelete
    BY <1>3 DEF FallbackDelete, Writing, FedInv, Fits, OneRowEach
  <1>4. CASE Retry
    BY <1>4 DEF Retry, FedInv, Fits, OneRowEach
  <1>5. CASE WriteAppend \/ WriteOverwrite \/ FallbackAppend
    <2>1. \A x \in Inserted(batch) : Fine(x)
      BY <1>0, InsertedFine
    <2>2. \/ Refuse
          \/ Commit(table \cup Inserted(batch))
          \/ Commit((table \ Replaceable) \cup Inserted(batch))
      BY <1>5 DEF WriteAppend, WriteOverwrite, FallbackAppend
    <2>3. QED
      BY <1>0, <1>2, <2>1, <2>2, CommitFed
  <1>6. CASE WriteUpsert
    <2>1. PICK vals \in AffectedPartitionValues :
             Commit(    {t \in table : \A s \in batch : ~Matches(t, s, vals)}
                   \cup {Updated(m[1], m[2]) :
                           m \in {n \in table \X batch : Matches(n[1], n[2], vals)}}
                   \cup Inserted({s \in batch : \A t \in table : ~Matches(t, s, vals)}))
      BY <1>6 DEF WriteUpsert
    <2>2. \A x \in {Updated(m[1], m[2]) :
                      m \in {n \in table \X batch : Matches(n[1], n[2], vals)}} : Fine(x)
      BY <1>0, UpdatedFine DEF Matches
    <2>3. \A x \in Inserted({s \in batch : \A t \in table : ~Matches(t, s, vals)}) : Fine(x)
      BY <1>0, InsertedFine
    <2>4. QED
      BY <1>0, <2>1, <2>2, <2>3, CommitFed
  <1>7. CASE ReplacePartitions
    <2>1. PICK vals \in AffectedPartitionValues :
             Refuse \/ Commit({t \in table : t.part \notin vals} \cup Inserted(batch))
      BY <1>7 DEF ReplacePartitions
    <2>2. \A x \in Inserted(batch) : Fine(x)
      BY <1>0, InsertedFine
    <2>3. QED
      BY <1>0, <1>2, <2>1, <2>2, CommitFed
  <1>8. CASE WriteHashDiff
    <2>1. PICK ins \in SUBSET batch : Commit(table \cup Inserted(ins))
      BY <1>8 DEF WriteHashDiff
    <2>2. \A x \in Inserted(ins) : Fine(x)
      BY <1>0, InsertedFine
    <2>3. QED
      BY <1>0, <2>1, <2>2, CommitFed
  <1>9. CASE WriteSnapshot
    <2>1. ASSUME NEW t \in table PROVE Fine(SnapshotRow(t))
      <3> DEFINE matching == {s \in batch : s.key = t.key}
                 chosen == CHOOSE s \in matching : TRUE
      <3>1. CASE matching = {}
        <4>1. SnapshotRow(t) \in {t, [t EXCEPT !.until = seq]}
          BY <3>1 DEF SnapshotRow
        <4>2. t \in TargetRows /\ Fine(t)
          BY <1>0
        <4>3. \A x \in {t, [t EXCEPT !.until = seq]} : Fine(x)
          BY <4>2, ClosingKeeps DEF Fine, Fits
        <4>4. QED
          BY <4>1, <4>3
      <3>2. CASE matching # {}
        <4>1. chosen \in batch /\ chosen.key = t.key
          BY <3>2
        <4>2. SnapshotRow(t) \in {t, Updated(t, chosen)}
          BY <3>2 DEF SnapshotRow
        <4> HIDE DEF chosen
        <4>3. QED
          BY <1>0, <4>1, <4>2, UpdatedFine
      <3>3. QED
        BY <3>1, <3>2
    <2>2. \A x \in Inserted({s \in batch : s.key \notin KeysOf(table)}) : Fine(x)
      BY <1>0, InsertedFine
    <2>3. QED
      BY <1>9, <2>1, <2>2, CommitFed DEF WriteSnapshot
  <1>10. CASE WriteScd2
    <2> DEFINE unmatched == {h \in Staged : \A t \in table : h \notin StagedFor(t)}
    <2>1. \A t \in table : Fine(Closed(t))
      BY <1>0, ClosingKeeps DEF Closed, Fine, Fits
    <2>2. {g.row : g \in unmatched} \subseteq batch
      BY DEF Staged, Changed
    <2>3. /\ \A x \in Inserted({g.row : g \in unmatched}) : Fine(x)
          /\ \A x \in Inserted(batch) : Fine(x)
      BY <1>0, <2>2, InsertedFine
    <2>4. \/ Refuse
          \/ Commit(Inserted(batch))
          \/ Commit({Closed(t) : t \in table} \cup Inserted({g.row : g \in unmatched}))
      BY <1>10 DEF WriteScd2
    <2>5. CASE Commit({Closed(t) : t \in table} \cup Inserted({g.row : g \in unmatched}))
      BY <2>1, <2>3, <2>5, CommitFed
    <2>6. QED
      BY <1>2, <2>3, <2>4, <2>5, CommitFed
  <1>11. CASE UNCHANGED vars
    BY <1>11 DEF vars, FedInv, Fits, OneRowEach
  <1>12. QED
    BY <1>1, <1>2, <1>3, <1>4, <1>5, <1>6, <1>7, <1>8, <1>9, <1>10, <1>11 DEF Next

\* The predicate names every partition of the batch.
LEMMA AllPartitionsNamed ==
  ASSUME FewParts, batch \subseteq SourceRows, NEW V \in AffectedPartitionValues
  PROVE  V = PartsOf(batch)
  <1> DEFINE P == PartsOf(batch)
  <1>1. P \subseteq Parts
    BY DEF PartsOf, SourceRows
  <1>2. IsFiniteSet(P) /\ Cardinality(P) <= MaxPredicateValues
    BY <1>1, FS_Subset, FS_CardinalityType, WriteConstants DEF FewParts
  <1>3. Cardinality(P) \in Nat /\ MaxPredicateValues \in Nat
    BY <1>2, FS_CardinalityType, WriteConstants
  <1>4. Min({MaxPredicateValues, Cardinality(P)}) = Cardinality(P)
    <2> HIDE DEF P
    <2>1. \A n \in {MaxPredicateValues, Cardinality(P)} : Cardinality(P) <= n
      BY <1>2, <1>3
    <2>2. QED
      BY <2>1, <1>2, <1>3 DEF Min
  <1>5. V \subseteq P /\ Cardinality(V) = Cardinality(P)
    BY <1>4 DEF AffectedPartitionValues
  <1>6. QED
    BY <1>2, <1>5, FS_Subset

LEMMA StoredRow ==
  ASSUME NEW s
  PROVE  /\ Stored(s).key = s.key /\ Stored(s).val = s.val /\ Stored(s).part = s.part
         /\ Stored(s).seq = seq /\ Stored(s).born = seq /\ Stored(s).until = 0
         /\ RowHash(Stored(s)) = RowHash(s)
  BY DEF Stored, RowHash

\* What the steps of hash diff and SCD2 leave to look at.
LEMMA HistoryModes ==
  ASSUME TypeInv, BatchUnique, [Next]_vars,
         plan.mode \in {"scd1_hash_diff", "scd2_historical"}
  PROVE  /\ plan' = plan
         /\ \/ table' = table
            \/ WriteHashDiff /\ plan.mode = "scd1_hash_diff"
            \/ WriteScd2 /\ plan.mode = "scd2_historical"
  <1>1. CASE phase = "half"
    BY <1>1 DEF BatchUnique
  <1>2. CASE phase # "half"
    BY <1>2 DEF Next, vars, Prepare, WriteAppend, WriteOverwrite, FallbackDelete,
       FallbackAppend, WriteUpsert, ReplacePartitions, WriteHashDiff, WriteSnapshot, WriteScd2,
       Fail, Retry, Writing, Commit, Refuse
  <1>3. QED
    BY <1>1, <1>2

\* The row a hash diff compares with is the last version of the key, also
\* when it has read no more than the partitions of the batch.
LEMMA ComparedWithLast ==
  ASSUME TypeInv, FedInv, VersionRows, Sound(plan), plan.mode = "scd1_hash_diff",
         NEW vals \in AffectedPartitionValues, NEW latest \in LatestRows(vals),
         NEW s \in batch, NEW t \in table, t.key = s.key,
         \A v \in table : v.key = t.key => v.born <= t.born
  PROVE  t \in latest
  <1> DEFINE read == IF plan.partitioned THEN {u \in table : u.part \in vals} ELSE table
  <1>1. t \in read
    <2>1. CASE plan.partitioned
      <3>1. vals = PartsOf(batch)
        BY <2>1, AllPartitionsNamed DEF Sound, TypeInv, TypeOK
      <3>2. t.part = Home[t.key] /\ s.part = Home[s.key]
        BY <2>1 DEF Sound, FedInv, Fits
      <3>3. t.part \in vals
        BY <3>1, <3>2 DEF PartsOf
      <3>4. QED
        BY <2>1, <3>3
    <2>2. QED
      BY <2>1
  <1>2. latest \in DeduplicateByOrder(read, "seq")
    BY DEF LatestRows, Sound
  <1>3. PICK x \in latest : x.key = t.key
    BY <1>1, <1>2 DEF DeduplicateByOrder, KeysOf
  <1>4. x \in table /\ t.seq <= x.seq
    BY <1>1, <1>2, <1>3 DEF DeduplicateByOrder
  <1>5. x.seq = x.born /\ t.seq = t.born /\ x.born \in Int /\ t.born \in Int
    BY <1>4 DEF VersionRows, TypeInv, TypeOK, TargetRows
  <1>6. x.born = t.born
    BY <1>3, <1>4, <1>5
  <1>7. QED
    BY <1>3, <1>4, <1>6 DEF VersionRows, OneOfEachWrite

LEMMA HashDiffKeepsVersions ==
  ASSUME VersionInv, Sound(plan), plan.mode = "scd1_hash_diff", WriteHashDiff
  PROVE  VersionRows' /\ VersionsAreChanges'
  <1>1. PICK vals \in AffectedPartitionValues : \E l \in LatestRows(vals) :
           Commit(table \cup Inserted({s \in batch : ~Unchanged(s, l)}))
    BY DEF WriteHashDiff
  <1>2. PICK latest \in LatestRows(vals) :
           Commit(table \cup Inserted({s \in batch : ~Unchanged(s, latest)}))
    BY <1>1
  <1>3. /\ plan' = plan /\ seq' = seq
        /\ table' = table \cup Inserted({s \in batch : ~Unchanged(s, latest)})
    BY <1>2 DEF Commit
  <1>4. /\ \A s \in batch : s.key # Null
        /\ OneRowEach(batch)
        /\ \A t \in table : t.born \in Int /\ t.born < seq /\ t.seq = t.born
        /\ seq \in Int
        /\ OneOfEachWrite
    BY DEF VersionInv, FedInv, Fits, Sound, WriteHashDiff, Writing, VersionRows, TypeInv, TypeOK,
       TargetRows
  <1> DEFINE New(x, s) == s \in batch /\ ~Unchanged(s, latest) /\ x = Stored(s)
  <1>5. ASSUME NEW x \in table' PROVE x \in table \/ \E s : New(x, s)
    BY <1>3 DEF Inserted
  <1>6. ASSUME NEW x, NEW s, New(x, s)
        PROVE  x.key = s.key /\ x.born = seq /\ x.seq = seq /\ RowHash(x) = RowHash(s)
    BY <1>6, StoredRow
  <1>7. VersionRows'
    <2>1. ASSUME NEW t \in table', NEW u \in table', t.key = u.key, t.born = u.born PROVE t = u
      <3>1. CASE t \in table
        <4>1. t.born < seq
          BY <1>4, <3>1
        <4>2. u \in table
          BY <1>4, <1>5, <1>6, <2>1, <4>1
        <4>3. QED
          BY <1>4, <2>1, <3>1, <4>2 DEF OneOfEachWrite
      <3>2. ASSUME NEW s, New(t, s) PROVE t = u
        <4>1. u.born = seq
          BY <1>6, <2>1, <3>2
        <4>2. PICK c : New(u, c)
          BY <1>4, <1>5, <4>1
        <4>3. s = c
          BY <1>4, <1>6, <2>1, <3>2, <4>2 DEF OneRowEach
        <4>4. QED
          BY <3>2, <4>2, <4>3
      <3>3. QED
        BY <1>5, <3>1, <3>2
    <2>2. \A t \in table' : t.seq = t.born
      BY <1>4, <1>5, <1>6
    <2>3. QED
      BY <1>3, <2>1, <2>2 DEF VersionRows, OneOfEachWrite
  <1>8. VersionsAreChanges'
    <2> SUFFICES ASSUME NEW t \in table', NEW u \in table', t.key = u.key, t.born < u.born,
                        ~\E v \in table' : v.key = t.key /\ t.born < v.born /\ v.born < u.born
                 PROVE  RowHash(t) # RowHash(u)
      BY <1>3 DEF VersionsAreChanges, RowHash
    <2>1. CASE u \in table
      <3>1. u.born < seq /\ u.born \in Int
        BY <1>4, <2>1
      <3>2. t.born # seq
        BY <1>4, <3>1
      <3>3. t \in table
        BY <1>5, <1>6, <3>2
      <3>4. ~\E v \in table : v.key = t.key /\ t.born < v.born /\ v.born < u.born
        BY <1>3
      <3>5. QED
        BY <2>1, <3>3, <3>4 DEF VersionInv, VersionsAreChanges
    <2>2. ASSUME NEW s, New(u, s) PROVE RowHash(t) # RowHash(u)
      <3>1. u.born = seq /\ u.key = s.key /\ RowHash(u) = RowHash(s)
        BY <1>6, <2>2
      <3>2. t \in table
        BY <1>4, <1>5, <1>6, <3>1
      <3>3. \A v \in table : v.key = t.key => v.born <= t.born
        BY <1>3, <1>4, <3>1, <3>2
      <3>4. t \in latest
        BY <2>2, <3>1, <3>2, <3>3, ComparedWithLast DEF VersionInv
      <3>5. t.key # Null
        BY <1>4, <2>2, <3>1
      <3>6. QED
        BY <2>2, <3>1, <3>4, <3>5 DEF Unchanged
    <2>3. QED
      BY <1>5, <2>1, <2>2
  <1>9. QED
    BY <1>7, <1>8

\* Without NULL keys a MERGE of SCD2 closes the current row of every changed
\* key and inserts the changed rows, each once.
LEMMA Scd2Writes ==
  ASSUME VersionInv, Sound(plan), plan.mode = "scd2_historical", WriteScd2, table # {},
         table' # table \/ phase' = "done"
  PROVE  /\ table' = {Closed(t) : t \in table} \cup Inserted(Changed)
         /\ \A c \in CurrentRows, s \in Changed : c.key = s.key =>
                RowHash(c) # RowHash(s) /\ Closed(c).until # 0
         /\ \A c \in CurrentRows : (\A s \in Changed : s.key # c.key) => Closed(c) = c
  <1> DEFINE unmatched == {h \in Staged : \A t \in table : h \notin StagedFor(t)}
  <1>1. /\ \A s \in batch : s.key # Null
        /\ \A t \in table : t.key # Null
        /\ OneRowEach(CurrentRows)
        /\ table \subseteq TargetRows
        /\ seq \in 1 .. MaxWrites
    BY DEF VersionInv, FedInv, Fits, Sound, WriteScd2, Writing, VersionRows, LastIsCurrent,
       TypeInv, TypeOK, Numbered
  <1>2. \A g \in Staged : g.row \in Changed /\ g.mergeKey \in {Null, g.row.key}
    BY DEF Staged
  <1>3. \A s \in Changed : s \in batch /\ [row |-> s, mergeKey |-> Null] \in Staged
    BY DEF Changed, Staged
  <1>4. {g.row : g \in unmatched} = Changed
    <2>1. {g.row : g \in unmatched} \subseteq Changed
      BY <1>2
    <2>2. ASSUME NEW s \in Changed PROVE s \in {g.row : g \in unmatched}
      <3> DEFINE h == [row |-> s, mergeKey |-> Null]
      <3>1. h \in Staged
        BY <1>3
      <3>2. \A t \in table : h \notin StagedFor(t)
        BY <1>1 DEF StagedFor
      <3>3. h \in unmatched /\ h.row = s
        BY <3>1, <3>2
      <3>4. QED
        BY <3>3
    <2>3. QED
      BY <2>1, <2>2
  <1>5. table' = {Closed(t) : t \in table} \cup Inserted(Changed)
    <2>1. table' = {Closed(t) : t \in table} \cup Inserted({g.row : g \in unmatched})
      BY DEF WriteScd2, Commit, Refuse
    <2>2. QED
      BY <2>1, <1>4
  <1>6. ASSUME NEW c \in CurrentRows, NEW s \in Changed, c.key = s.key
        PROVE  RowHash(c) # RowHash(s) /\ Closed(c).until # 0
    <2>1. c \in table /\ c.until = 0 /\ c.key # Null
      BY <1>1 DEF CurrentRows
    <2>2. c \in Previous(s)
      BY <1>6, <2>1 DEF Previous
    <2>3. PICK u \in Previous(s) : RowHash(u) # RowHash(s)
      BY <2>2 DEF Changed
    <2>4. u = c
      BY <1>1, <1>6, <2>3 DEF Previous, OneRowEach
    <2> DEFINE again == [row |-> s, mergeKey |-> s.key]
    <2>5. again \in Staged
      BY <2>2 DEF Staged
    <2>6. again \in StagedFor(c)
      BY <1>6, <2>1, <2>5 DEF StagedFor
    <2>7. \E g \in StagedFor(c) : RowHash(c) # RowHash(g.row)
      BY <2>3, <2>4, <2>6
    <2>8. Closed(c) = [c EXCEPT !.until = seq]
      BY <2>7 DEF Closed
    <2>9. [c EXCEPT !.until = seq].until # 0
      BY <1>1, <2>1 DEF TargetRows
    <2>10. QED
      BY <2>3, <2>4, <2>8, <2>9
  <1>7. ASSUME NEW c \in CurrentRows, \A s \in Changed : s.key # c.key
        PROVE  Closed(c) = c
    <2>1. c \in table /\ c.key # Null
      BY <1>1 DEF CurrentRows
    <2>2. StagedFor(c) = {}
      BY <1>2, <1>7, <2>1 DEF StagedFor
    <2>3. QED
      BY <2>2 DEF Closed
  <1>8. QED
    BY <1>5, <1>6, <1>7

LEMMA Scd2KeepsVersions ==
  ASSUME VersionInv, Sound(plan), plan.mode = "scd2_historical", WriteScd2
  PROVE  VersionRows' /\ VersionsAreChanges'
  <1>1. /\ OneRowEach(batch)
        /\ OneRowEach(CurrentRows)
        /\ \A t \in table : \E c \in CurrentRows : c.key = t.key /\ t.born <= c.born
        /\ OneOfEachWrite
        /\ \A t \in table : t.born < seq /\ t.born \in Int
        /\ table \subseteq TargetRows
        /\ seq \in 1 .. MaxWrites
        /\ plan' = plan /\ seq' = seq
    BY DEF VersionInv, BatchUnique, Merges, FedInv, VersionRows, LastIsCurrent, WriteScd2,
       Writing, Commit, Refuse, TypeInv, TypeOK, Numbered, TargetRows
  <1>2. OneRowEach(CurrentRows')
    BY <1>1, Scd2KeepsKeys DEF VersionInv
  <1>3. SUFFICES
          /\ \A t, u \in table' : t.key = u.key /\ t.born = u.born => t = u
          /\ \A t \in table' : \E c \in CurrentRows' : c.key = t.key /\ t.born <= c.born
          /\ \A t, u \in table' :
                (/\ t.key = u.key /\ t.born < u.born
                 /\ ~\E v \in table' : v.key = t.key /\ t.born < v.born /\ v.born < u.born)
                => RowHash(t) # RowHash(u)
    BY <1>1, <1>2 DEF VersionRows, OneOfEachWrite, LastIsCurrent, VersionsAreChanges, RowHash,
       OneRowEach
  <1>4. CASE table' = table
    BY <1>1, <1>4 DEF OneOfEachWrite, CurrentRows, VersionInv, VersionsAreChanges
  <1>5. CASE table = {} /\ table' # table
    <2>1. table' = Inserted(batch)
      BY <1>5 DEF WriteScd2, Commit
    <2>2. ASSUME NEW t \in table' PROVE \E s \in batch : t = Stored(s)
      BY <2>1 DEF Inserted
    <2>3. \A t \in table' : t.born = seq /\ t.until = 0
      BY <2>2, StoredRow
    <2>4. \A t, u \in table' : t.key = u.key => t = u
      BY <1>1, <2>2, StoredRow DEF OneRowEach
    <2>5. QED
      BY <1>1, <2>3, <2>4 DEF CurrentRows
  <1>6. CASE table # {} /\ table' # table
    <2> DEFINE Old(x, t) == t \in table /\ x = Closed(t)
               New(x, s) == s \in Changed /\ x = Stored(s)
    <2>0. /\ table' = {Closed(t) : t \in table} \cup Inserted(Changed)
          /\ \A c \in CurrentRows, s \in Changed : c.key = s.key =>
                 RowHash(c) # RowHash(s) /\ Closed(c).until # 0
          /\ \A c \in CurrentRows : (\A s \in Changed : s.key # c.key) => Closed(c) = c
      BY <1>6, Scd2Writes
    <2>1. ASSUME NEW x \in table' PROVE (\E t : Old(x, t)) \/ (\E s : New(x, s))
      BY <2>0 DEF Inserted
    <2>2. \A t \in table : /\ Closed(t) \in table'
                           /\ Closed(t).key = t.key /\ Closed(t).born = t.born
                           /\ RowHash(Closed(t)) = RowHash(t)
      BY SMTT(30), <1>1, <2>0, ClosingKeeps DEF Closed
    <2>3. \A s \in Changed : /\ Stored(s) \in table'
                             /\ s \in batch
                             /\ Stored(s).key = s.key /\ Stored(s).born = seq
                             /\ Stored(s).until = 0
                             /\ RowHash(Stored(s)) = RowHash(s)
      BY <2>0, StoredRow DEF Inserted, Changed
    <2>4. \A c \in CurrentRows : c \in table /\ c.until = 0
      BY DEF CurrentRows
    <2>5. ASSUME NEW t \in table', NEW u \in table', t.key = u.key, t.born = u.born PROVE t = u
      <3>1. ASSUME NEW a, Old(t, a) PROVE t = u
        <4>1. a \in table /\ t.key = a.key /\ t.born = a.born /\ a.born < seq
          BY <1>1, <2>2, <3>1
        <4>2. ASSUME NEW s, New(u, s) PROVE FALSE
          <5>1. u.born = seq
            BY <2>3, <4>2
          <5>2. a.born = seq /\ a.born \in Int /\ seq \in Int
            BY <1>1, <2>5, <4>1, <5>1
          <5>3. QED
            BY <4>1, <5>2
        <4>3. PICK b : Old(u, b)
          BY <2>1, <4>2
        <4>4. b \in table /\ u.key = b.key /\ u.born = b.born
          BY <2>2, <4>3
        <4>5. a = b
          BY <1>1, <2>5, <4>1, <4>4 DEF OneOfEachWrite
        <4>6. QED
          BY <3>1, <4>3, <4>5
      <3>2. ASSUME NEW s, New(t, s) PROVE t = u
        <4>1. u.born = seq /\ s \in batch /\ t.key = s.key
          BY <2>3, <2>5, <3>2
        <4>2. ASSUME NEW b, Old(u, b) PROVE FALSE
          BY <1>1, <2>2, <4>1, <4>2
        <4>3. PICK c : New(u, c)
          BY <2>1, <4>2
        <4>4. c \in batch /\ u.key = c.key
          BY <2>3, <4>3
        <4>5. s = c
          BY ZenonT(30), <1>1, <2>5, <4>1, <4>4 DEF OneRowEach
        <4>6. QED
          BY <3>2, <4>3, <4>5
      <3>3. QED
        BY <2>1, <3>1, <3>2
    <2>6. ASSUME NEW t \in table'
          PROVE  \E c \in CurrentRows' : c.key = t.key /\ t.born <= c.born
      <3>1. ASSUME NEW s \in Changed, s.key = t.key
            PROVE  \E c \in CurrentRows' : c.key = t.key /\ t.born <= c.born
        <4>1. Stored(s) \in CurrentRows'
          BY <2>3 DEF CurrentRows
        <4>2. t.born <= seq
          BY <1>1, <2>1, <2>2, <2>3
        <4>3. QED
          BY <2>3, <3>1, <4>1, <4>2
      <3>2. CASE \A s \in Changed : s.key # t.key
        <4>1. PICK a : Old(t, a)
          BY <2>1, <2>3, <3>2
        <4>2. a \in table /\ t.key = a.key /\ t.born = a.born
          BY <2>2, <4>1
        <4>3. PICK c \in CurrentRows : c.key = a.key /\ a.born <= c.born
          BY <1>1, <4>2
        <4>4. Closed(c) = c
          BY <2>0, <3>2, <4>2, <4>3
        <4>5. c \in CurrentRows'
          BY <2>2, <2>4, <4>3, <4>4 DEF CurrentRows
        <4>6. QED
          BY <4>2, <4>3, <4>5
      <3>3. QED
        BY <3>1, <3>2
    <2>7. ASSUME NEW t \in table', NEW u \in table', t.key = u.key, t.born < u.born,
                 ~\E v \in table' : v.key = t.key /\ t.born < v.born /\ v.born < u.born
          PROVE  RowHash(t) # RowHash(u)
      <3>1. PICK a : Old(t, a)
        <4>1. u.born <= seq
          BY <1>1, <2>1, <2>2, <2>3
        <4>2. ~\E s : New(t, s)
          BY <1>1, <2>1, <2>2, <2>3, <2>7, <4>1
        <4>3. QED
          BY <2>1, <4>2
      <3>2. a \in table /\ a.key = t.key /\ a.born = t.born /\ RowHash(a) = RowHash(t)
        BY <2>2, <3>1
      <3>3. ASSUME NEW b, Old(u, b) PROVE RowHash(t) # RowHash(u)
        <4>1. b \in table /\ b.key = u.key /\ b.born = u.born /\ RowHash(b) = RowHash(u)
          BY <2>2, <3>3
        <4>2. ~\E v \in table : v.key = a.key /\ a.born < v.born /\ v.born < b.born
          BY <2>2, <2>7, <3>2, <4>1
        <4>3. RowHash(a) # RowHash(b)
          BY <2>7, <3>2, <4>1, <4>2 DEF VersionInv, VersionsAreChanges
        <4>4. QED
          BY <3>2, <4>1, <4>3
      <3>4. ASSUME NEW s, New(u, s) PROVE RowHash(t) # RowHash(u)
        <4>1. u.key = s.key /\ u.born = seq /\ RowHash(u) = RowHash(s)
          BY <2>3, <3>4
        <4>2. PICK c \in CurrentRows : c.key = a.key /\ a.born <= c.born
          BY <1>1, <3>2
        <4>3. c \in table /\ c.born < seq /\ c.born \in Int
          BY <1>1, <2>4, <4>2
        <4>4. c.born = a.born
          BY <1>1, <2>2, <2>7, <3>2, <4>1, <4>2, <4>3
        <4>5. c = a
          BY <1>1, <3>2, <4>2, <4>3, <4>4 DEF OneOfEachWrite
        <4>6. c.key = s.key
          BY <2>7, <3>2, <4>1, <4>2
        <4>7. RowHash(c) # RowHash(s)
          BY <2>0, <3>4, <4>2, <4>6
        <4>8. QED
          BY <3>2, <4>1, <4>5, <4>7
      <3>5. QED
        BY <2>1, <3>3, <3>4
    <2>8. QED
      BY <2>5, <2>6, <2>7
  <1>7. QED
    BY <1>4, <1>5, <1>6

LEMMA VersionStep ==
  ASSUME \A p \in Plans : Sound(p), VersionInv, [Next]_vars
  PROVE  VersionInv'
  <1>1. TypeInv' /\ BatchUnique' /\ FedInv' /\ plan' = plan /\ Sound(plan)
    <2>1. plan' = plan /\ plan \in Plans
      BY DEF VersionInv, TypeInv, TypeOK, Next, vars, Prepare, WriteAppend, WriteOverwrite,
         FallbackDelete, FallbackAppend, WriteUpsert, ReplacePartitions, WriteHashDiff,
         WriteSnapshot, WriteScd2, Fail, Retry, Writing, Commit, Refuse
    <2>2. QED
      BY <2>1, TypeStep, BatchUniqueStep, FedStep DEF VersionInv
  <1>2. CASE plan.mode \notin {"scd1_hash_diff", "scd2_historical"}
    BY <1>1, <1>2 DEF VersionInv, VersionRows, VersionsAreChanges
  <1>3. CASE plan.mode \in {"scd1_hash_diff", "scd2_historical"}
    <2>1. CASE table' = table
      BY <1>1, <2>1 DEF VersionInv, VersionRows, VersionsAreChanges, OneOfEachWrite,
         LastIsCurrent, OneRowEach, CurrentRows, RowHash
    <2>2. VersionRows' /\ VersionsAreChanges'
      BY <1>1, <1>3, <2>1, HistoryModes, HashDiffKeepsVersions, Scd2KeepsVersions DEF VersionInv
    <2>3. QED
      BY <1>1, <2>2 DEF VersionInv
  <1>4. QED
    BY <1>2, <1>3

LEMMA VersionInit == Init => VersionInv
  BY TypeInit DEF Init, VersionInv, BatchUnique, FedInv, VersionRows, OneOfEachWrite,
     LastIsCurrent, OneRowEach, CurrentRows, VersionsAreChanges

\* Where the source sends what the mode copes with, hash diff and SCD2 store a
\* version of a key only when it differs from the one before, whatever is
\* replayed, fails or is refused in between (write_scd1_hash_diff, write_scd2).
THEOREM VersionsChange ==
  ASSUME \A p \in Plans : Sound(p)
  PROVE  Spec => []VersionsAreChanges
  <1>1. VersionInv /\ [Next]_vars => VersionInv'
    BY VersionStep
  <1>2. VersionInv => VersionsAreChanges
    BY DEF VersionInv
  <1>3. QED
    BY <1>1, <1>2, VersionInit, PTL DEF Spec
-----------------------------------------------------------------------------
(***************************************************************************)
(* What a write that ends well has done.                                   *)
(***************************************************************************)

\* What a reader sees of a stored row.
Row(t) == [key |-> t.key, val |-> t.val, part |-> t.part]

LEMMA RowOfSource ==
  ASSUME NEW s \in SourceRows
  PROVE  Row(s) = s
  BY DEF Row, SourceRows

LEMMA RowOfStored ==
  ASSUME NEW s \in SourceRows
  PROVE  Row(Stored(s)) = s
  BY StoredRow, RowOfSource DEF Row

LEMMA RowsOfInserted ==
  ASSUME NEW S \in SUBSET SourceRows
  PROVE  {Row(t) : t \in Inserted(S)} = S
  BY RowOfStored DEF Inserted

LEMMA RowOfUpdated ==
  ASSUME NEW t, NEW s \in SourceRows
  PROVE  Row(Updated(t, s)) = s /\ Updated(t, s).until = 0
  <1>1. Updated(t, s) = [key |-> s.key, val |-> s.val, part |-> s.part,
                         seq |-> seq, born |-> t.born, until |-> 0]
    BY DEF Updated, Stored
  <1>2. QED
    BY <1>1, RowOfSource DEF Row

LEMMA HashOfRow ==
  ASSUME NEW t
  PROVE  RowHash(Row(t)) = RowHash(t) /\ Row(t).key = t.key /\ Row(t).part = t.part
  BY DEF Row, RowHash

LEMMA ContentIsRows == Content = {Row(t) : t \in Shown}
  BY DEF Content, Row

\* The state in which a write commits.
Committing(rows) ==
    /\ VersionInv /\ HalfInv /\ Sound(plan)
    /\ phase \in {"write", "half"} /\ Commit(rows)

LEMMA CommittingType ==
  ASSUME NEW T, Committing(T)
  PROVE  /\ table \subseteq TargetRows /\ batch \subseteq SourceRows
         /\ seq \in 1 .. MaxWrites /\ plan \in Plans
         /\ table' = T /\ plan' = plan /\ seq' = seq /\ batch' = batch
  BY DEF Committing, VersionInv, TypeInv, TypeOK, Numbered, Commit

LEMMA AppendApplies ==
  ASSUME plan.mode = "scd0_append", Committing(table \cup Inserted(batch))
  PROVE  Content' = Applied(Content, batch)
  <1>1. /\ table' = table \cup Inserted(batch) /\ plan' = plan
        /\ batch \in SUBSET SourceRows
    BY CommittingType
  <1>2. Shown = table /\ Shown' = table'
    BY <1>1 DEF Shown
  <1>3. Content' = {Row(t) : t \in table} \cup {Row(t) : t \in Inserted(batch)}
    BY <1>1, <1>2 DEF Content, Row
  <1>4. {Row(t) : t \in Inserted(batch)} = batch
    BY <1>1, RowsOfInserted
  <1>5. Content' = Content \cup batch
    BY <1>2, <1>3, <1>4, ContentIsRows
  <1>6. QED
    BY <1>5 DEF Applied

\* Also the second commit of the fallback: the first one has left nothing to
\* replace.
LEMMA OverwriteApplies ==
  ASSUME plan.mode = "scd0_overwrite", Committing((table \ Replaceable) \cup Inserted(batch))
  PROVE  Content' = Applied(Content, batch)
  <1>1. /\ table' = (table \ Replaceable) \cup Inserted(batch) /\ plan' = plan
        /\ batch \in SUBSET SourceRows
    BY CommittingType
  <1>2. Shown = table /\ Shown' = table'
    BY <1>1 DEF Shown
  <1>3. Content' = {Row(t) : t \in table \ Replaceable} \cup {Row(t) : t \in Inserted(batch)}
    BY <1>1, <1>2 DEF Content, Row
  <1>4. {Row(t) : t \in table \ Replaceable} =
            {c \in {Row(t) : t \in table} : plan.value \notin {Null, c.part}}
    BY HashOfRow DEF Replaceable
  <1>5. {Row(t) : t \in Inserted(batch)} = batch
    BY <1>1, RowsOfInserted
  <1>6. Content' = {c \in Content : plan.value \notin {Null, c.part}} \cup batch
    BY <1>2, <1>3, <1>4, <1>5, ContentIsRows
  <1>7. QED
    BY <1>6 DEF Applied

\* The MERGE matches the rows of the same key, within the partitions of the
\* batch too, as long as keys do not move.
LEMMA UpsertApplies ==
  ASSUME plan.mode = "scd1_upsert", plan.strategy # "replace_partitions",
         NEW vals \in AffectedPartitionValues,
         Committing(    {t \in table : \A s \in batch : ~Matches(t, s, vals)}
                   \cup {Updated(m[1], m[2]) :
                           m \in {n \in table \X batch : Matches(n[1], n[2], vals)}}
                   \cup Inserted({s \in batch : \A t \in table : ~Matches(t, s, vals)}))
  PROVE  Content' = Applied(Content, batch)
  <1> DEFINE kept == {t \in table : \A s \in batch : ~Matches(t, s, vals)}
             set == {Updated(m[1], m[2]) :
                       m \in {n \in table \X batch : Matches(n[1], n[2], vals)}}
             new == {s \in batch : \A t \in table : ~Matches(t, s, vals)}
  <1>1. /\ table' = kept \cup set \cup Inserted(new) /\ plan' = plan
        /\ table \subseteq TargetRows
        /\ batch \in SUBSET SourceRows
    BY CommittingType
  <1>2. ASSUME NEW t \in table, NEW s \in batch PROVE Matches(t, s, vals) <=> t.key = s.key
    <2>1. CASE plan.strategy = "delta_by_partition" /\ t.key = s.key
      <3>1. vals = PartsOf(batch)
        BY <1>1, <2>1, AllPartitionsNamed DEF Sound, Committing
      <3>2. t.part = Home[t.key] /\ s.part = Home[s.key]
        BY <2>1 DEF Committing, Sound, VersionInv, FedInv, Fits
      <3>3. t.part \in vals
        BY <2>1, <3>1, <3>2 DEF PartsOf
      <3>4. QED
        BY <2>1, <3>3 DEF Matches
    <2>2. QED
      BY <2>1 DEF Matches
  <1>3. Shown = table /\ Shown' = table'
    BY <1>1 DEF Shown
  <1>4. {Row(t) : t \in kept} = {c \in {Row(t) : t \in table} : c.key \notin KeysOf(batch)}
    BY <1>2, HashOfRow DEF KeysOf
  <1>5. {Row(t) : t \in set} = {s \in batch : \E t \in table : t.key = s.key}
    <2>1. ASSUME NEW t \in table, NEW s \in batch, t.key = s.key
          PROVE  s \in {Row(x) : x \in set}
      <3>1. <<t, s>> \in {n \in table \X batch : Matches(n[1], n[2], vals)}
        BY <1>2, <2>1
      <3>2. Updated(t, s) \in set
        BY <3>1
      <3>3. Row(Updated(t, s)) = s
        BY <1>1, RowOfUpdated
      <3>4. QED
        BY <3>2, <3>3
    <2>2. ASSUME NEW x \in set
          PROVE  \E s \in batch : Row(x) = s /\ \E t \in table : t.key = s.key
      <3>1. PICK m \in table \X batch : Matches(m[1], m[2], vals) /\ x = Updated(m[1], m[2])
        OBVIOUS
      <3>2. m[1] \in table /\ m[2] \in batch
        OBVIOUS
      <3>3. Row(x) = m[2]
        BY <1>1, <3>1, <3>2, RowOfUpdated
      <3>4. QED
        BY <1>2, <3>1, <3>2, <3>3
    <2>3. QED
      BY <2>1, <2>2
  <1>6. {Row(t) : t \in Inserted(new)} = {s \in batch : ~\E t \in table : t.key = s.key}
    <2>1. new \in SUBSET SourceRows
      BY <1>1
    <2>2. {Row(t) : t \in Inserted(new)} = new
      BY <2>1, RowsOfInserted
    <2>3. new = {s \in batch : ~\E t \in table : t.key = s.key}
      BY <1>2
    <2>4. QED
      BY <2>2, <2>3
  <1>7. Content' = {Row(t) : t \in kept} \cup {Row(t) : t \in set} \cup {Row(t) : t \in Inserted(new)}
    <2> HIDE DEF kept, set, new
    <2>1. QED
      BY <1>1, <1>3 DEF Content, Row
  <1>8. Content' = {c \in Content : c.key \notin KeysOf(batch)} \cup batch
    <2> HIDE DEF kept, set, new
    <2>1. QED
      BY <1>3, <1>4, <1>5, <1>6, <1>7, ContentIsRows
  <1>9. QED
    BY <1>8 DEF Applied

\* Delta lets the overwrite pass only when the predicate names all partitions.
LEMMA ReplaceApplies ==
  ASSUME plan.mode = "scd1_upsert", plan.strategy = "replace_partitions",
         NEW vals \in AffectedPartitionValues, PartsOf(batch) \subseteq vals,
         Committing({t \in table : t.part \notin vals} \cup Inserted(batch))
  PROVE  Content' = Applied(Content, batch)
  <1>1. /\ table' = {t \in table : t.part \notin vals} \cup Inserted(batch) /\ plan' = plan
        /\ batch \in SUBSET SourceRows
    BY CommittingType
  <1>2. vals = PartsOf(batch)
    BY DEF AffectedPartitionValues
  <1>3. Shown = table /\ Shown' = table'
    BY <1>1 DEF Shown
  <1>4. Content' =      {Row(t) : t \in {u \in table : u.part \notin vals}}
                   \cup {Row(t) : t \in Inserted(batch)}
    BY <1>1, <1>3 DEF Content, Row
  <1>5. {Row(t) : t \in {u \in table : u.part \notin vals}} =
            {c \in {Row(t) : t \in table} : c.part \notin PartsOf(batch)}
    BY <1>2, HashOfRow
  <1>6. {Row(t) : t \in Inserted(batch)} = batch
    BY <1>1, RowsOfInserted
  <1>7. Content' = {c \in Content : c.part \notin PartsOf(batch)} \cup batch
    BY <1>3, <1>4, <1>5, <1>6, ContentIsRows
  <1>8. QED
    BY <1>7 DEF Applied

\* One MERGE updates or reactivates the rows of the snapshot, inserts its new
\* ones and closes all others.
LEMMA SnapshotApplies ==
  ASSUME plan.mode = "snapshot_soft_delete", OneRowEach(batch),
         Committing({SnapshotRow(t) : t \in table}
                    \cup Inserted({s \in batch : s.key \notin KeysOf(table)}))
  PROVE  Content' = Applied(Content, batch)
  <1>1. /\ table' = {SnapshotRow(t) : t \in table}
                    \cup Inserted({s \in batch : s.key \notin KeysOf(table)})
        /\ plan' = plan /\ plan.wide
        /\ table \subseteq TargetRows
        /\ batch \in SUBSET SourceRows
        /\ seq \in 1 .. MaxWrites
    BY CommittingType, WritePlans
  <1>2. Shown' = {x \in table' : x.until = 0}
    BY <1>1 DEF Shown, CurrentRows
  <1>3. ASSUME NEW t \in table, NEW s \in batch, s.key = t.key
        PROVE  SnapshotRow(t).until = 0 /\ Row(SnapshotRow(t)) = s
    <2> DEFINE matching == {c \in batch : c.key = t.key}
    <2>1. matching = {s}
      BY <1>3 DEF OneRowEach
    <2>2. (CHOOSE c \in matching : TRUE) = s
      BY <2>1
    <2>3. SnapshotRow(t) = IF RowHash(t) # RowHash(s) \/ t.until # 0 THEN Updated(t, s) ELSE t
      BY <2>1, <2>2 DEF SnapshotRow
    <2>4. CASE RowHash(t) # RowHash(s) \/ t.until # 0
      BY <1>1, <2>3, <2>4, RowOfUpdated
    <2>5. CASE RowHash(t) = RowHash(s) /\ t.until = 0
      <3>1. t.val = s.val /\ t.part = s.part
        BY <1>1, <2>5 DEF RowHash
      <3>2. Row(t) = Row(s)
        BY <1>3, <3>1 DEF Row
      <3>3. QED
        BY <1>1, <2>3, <2>5, <3>2, RowOfSource
    <2>6. QED
      BY <2>4, <2>5
  <1>4. ASSUME NEW t \in table, \A s \in batch : s.key # t.key
        PROVE  SnapshotRow(t).until # 0
    <2>1. {s \in batch : s.key = t.key} = {}
      BY <1>4
    <2>2. SnapshotRow(t) = IF t.until = 0 THEN [t EXCEPT !.until = seq] ELSE t
      BY <2>1 DEF SnapshotRow
    <2>3. [t EXCEPT !.until = seq].until # 0
      BY <1>1 DEF TargetRows
    <2>4. QED
      BY <2>2, <2>3
  <1>5. ASSUME NEW x \in Shown' PROVE Row(x) \in batch
    <2>1. CASE x \in Inserted({s \in batch : s.key \notin KeysOf(table)})
      BY <1>1, <2>1, RowOfStored DEF Inserted
    <2>2. ASSUME NEW t \in table, x = SnapshotRow(t) PROVE Row(x) \in batch
      <3>1. PICK s \in batch : s.key = t.key
        BY <1>2, <1>4, <2>2
      <3>2. QED
        BY <1>3, <2>2, <3>1
    <2>3. QED
      BY <1>1, <1>2, <2>1, <2>2
  <1>6. ASSUME NEW s \in batch PROVE \E x \in Shown' : Row(x) = s
    <2>1. CASE s.key \notin KeysOf(table)
      <3>1. Stored(s) \in table'
        BY <1>1, <2>1 DEF Inserted
      <3>2. QED
        BY <1>1, <1>2, <3>1, RowOfStored, StoredRow
    <2>2. CASE s.key \in KeysOf(table)
      <3>1. PICK t \in table : s.key = t.key
        BY <2>2 DEF KeysOf
      <3>2. SnapshotRow(t) \in table'
        BY <1>1
      <3>3. QED
        BY <1>2, <1>3, <3>1, <3>2
    <2>3. QED
      BY <2>1, <2>2
  <1>7. Content' = {Row(x) : x \in Shown'}
    BY DEF Content, Row
  <1>8. Content' = batch
    BY <1>5, <1>6, <1>7
  <1>9. QED
    BY <1>8 DEF Applied

\* Hash diff and SCD2 put a new row in the place of the one that is shown, for
\* the keys of which no row with the same hash is shown.
LEMMA PutApplies ==
  ASSUME plan.mode \in {"scd1_hash_diff", "scd2_historical"}, plan \in Plans,
         OneRowEach(Shown), OneRowEach(batch), batch \in SUBSET SourceRows,
         NEW ins, ins = {s \in batch : ~\E c \in Shown : c.key = s.key /\ RowHash(c) = RowHash(s)},
         Shown' = {t \in Shown : \A s \in ins : s.key # t.key} \cup Inserted(ins)
  PROVE  Content' = Applied(Content, batch)
  <1> DEFINE kept == {t \in Shown : \A s \in ins : s.key # t.key}
  <1>1. Content' = {Row(t) : t \in kept} \cup ins
    <2>1. Content' = {Row(t) : t \in kept} \cup {Row(t) : t \in Inserted(ins)}
      BY DEF Content, Row
    <2>2. ins \in SUBSET SourceRows
      OBVIOUS
    <2>3. {Row(t) : t \in Inserted(ins)} = ins
      BY <2>2, RowsOfInserted
    <2>4. QED
      BY <2>1, <2>3
  <1>2. ins = {b \in batch : ~\E c \in Content : c.key = b.key /\ RowHash(b) = RowHash(c)}
    BY ContentIsRows, HashOfRow
  <1>3. ASSUME NEW t \in Shown
        PROVE  t \in kept <=> \/ t.key \notin KeysOf(batch)
                              \/ \E b \in batch : b.key = t.key /\ RowHash(b) = RowHash(t)
    <2>1. ASSUME t \in kept, NEW b \in batch, b.key = t.key PROVE RowHash(b) = RowHash(t)
      <3>1. PICK c \in Shown : c.key = b.key /\ RowHash(c) = RowHash(b)
        BY <2>1
      <3>2. c = t
        BY <2>1, <3>1 DEF OneRowEach
      <3>3. QED
        BY <3>1, <3>2
    <2>2. ASSUME t \notin kept
          PROVE  /\ t.key \in KeysOf(batch)
                 /\ \A b \in batch : b.key = t.key => RowHash(b) # RowHash(t)
      <3>1. PICK s \in ins : s.key = t.key
        BY <2>2
      <3>2. \A b \in batch : b.key = t.key => b = s
        BY <3>1 DEF OneRowEach
      <3>3. QED
        BY <3>1, <3>2 DEF KeysOf
    <2>3. QED
      BY <2>1, <2>2 DEF KeysOf
  <1>4. {Row(t) : t \in kept} =
            {c \in Content : \/ c.key \notin KeysOf(batch)
                             \/ \E b \in batch : b.key = c.key /\ RowHash(b) = RowHash(c)}
    <2>1. ASSUME NEW t \in Shown
          PROVE  t \in kept <=> \/ Row(t).key \notin KeysOf(batch)
                                \/ \E b \in batch : b.key = Row(t).key /\ RowHash(b) = RowHash(Row(t))
      BY <1>3, HashOfRow
    <2>2. kept \subseteq Shown
      OBVIOUS
    <2> HIDE DEF kept
    <2>3. QED
      BY <2>1, <2>2, ContentIsRows
  <1>5. Content' = Put(Content, batch)
    <2> HIDE DEF kept
    <2>1. QED
      BY <1>1, <1>2, <1>4 DEF Put
  <1>6. plan.strategy = "delta"
    BY WritePlans DEF PlanType, Strategies
  <1>7. QED
    BY <1>5, <1>6 DEF Applied

LEMMA HashDiffApplies ==
  ASSUME plan.mode = "scd1_hash_diff",
         NEW vals \in AffectedPartitionValues, NEW latest \in LatestRows(vals),
         Committing(table \cup Inserted({s \in batch : ~Unchanged(s, latest)}))
  PROVE  Content' = Applied(Content, batch)
  <1> DEFINE ins == {s \in batch : ~Unchanged(s, latest)}
             read == IF plan.partitioned THEN {u \in table : u.part \in vals} ELSE table
  <1>1. /\ table' = table \cup Inserted(ins) /\ plan' = plan /\ plan \in Plans
        /\ table \subseteq TargetRows
        /\ batch \in SUBSET SourceRows
        /\ seq \in 1 .. MaxWrites
    BY CommittingType
  <1>2. /\ \A s \in batch : s.key # Null
        /\ OneRowEach(batch)
        /\ \A t \in table : t.born \in Int /\ t.born < seq /\ t.seq = t.born
        /\ OneOfEachWrite
    BY DEF Committing, VersionInv, FedInv, Fits, Sound, VersionRows, TypeInv, TypeOK, TargetRows
  <1>3. Shown = {t \in table : \A u \in table : u.key = t.key => u.seq <= t.seq}
    BY DEF Shown
  <1>4. Shown' = {t \in table' : \A u \in table' : u.key = t.key => u.seq <= t.seq}
    BY <1>1 DEF Shown
  <1>5. OneRowEach(Shown)
    <2>1. ASSUME NEW t \in Shown, NEW u \in Shown, t.key = u.key PROVE t = u
      <3>1. t \in table /\ u \in table /\ t.seq <= u.seq /\ u.seq <= t.seq
        BY <1>3, <2>1
      <3>2. t.born = u.born
        BY <1>2, <3>1
      <3>3. QED
        BY <1>2, <2>1, <3>1, <3>2 DEF OneOfEachWrite
    <2>2. QED
      BY <2>1 DEF OneRowEach
  <1>6. ASSUME NEW s \in batch, NEW t, t.key = s.key
        PROVE  t \in latest <=> t \in Shown
    <2>1. ASSUME t \in Shown PROVE t \in latest
      <3>1. t \in table /\ \A v \in table : v.key = t.key => v.born <= t.born
        BY <1>2, <1>3, <2>1
      <3>2. QED
        BY <1>6, <3>1, ComparedWithLast DEF Committing, VersionInv
    <2>2. ASSUME t \in latest PROVE t \in Shown
      <3>1. latest \in DeduplicateByOrder(read, "seq")
        BY DEF LatestRows, Committing, Sound
      <3>2. t \in table /\ \A y \in read : t.key = y.key => y.seq <= t.seq
        BY <2>2, <3>1 DEF DeduplicateByOrder
      <3>3. ASSUME NEW u \in table, u.key = t.key PROVE u \in read
        <4>1. CASE plan.partitioned
          <5>1. vals = PartsOf(batch)
            BY <1>1, <4>1, AllPartitionsNamed DEF Committing, Sound
          <5>2. u.part = Home[u.key] /\ s.part = Home[s.key]
            BY <4>1 DEF Committing, Sound, VersionInv, FedInv, Fits
          <5>3. u.part \in vals
            BY <1>6, <3>3, <5>1, <5>2 DEF PartsOf
          <5>4. QED
            BY <4>1, <5>3
        <4>2. QED
          BY <4>1
      <3>4. QED
        BY <1>3, <3>2, <3>3
    <2>3. QED
      BY <2>1, <2>2
  <1>7. ins = {s \in batch : ~\E c \in Shown : c.key = s.key /\ RowHash(c) = RowHash(s)}
    <2>1. ASSUME NEW s \in batch
          PROVE  Unchanged(s, latest) <=> \E c \in Shown : c.key = s.key /\ RowHash(c) = RowHash(s)
      BY <1>2, <1>6 DEF Unchanged
    <2>2. QED
      BY <2>1
  <1>8. Shown' = {t \in Shown : \A s \in ins : s.key # t.key} \cup Inserted(ins)
    <2> DEFINE New(x, s) == s \in ins /\ x = Stored(s)
    <2>1. ASSUME NEW x \in table' PROVE x \in table \/ \E s : New(x, s)
      BY <1>1 DEF Inserted
    <2>2. ASSUME NEW s \in ins
          PROVE  /\ s \in batch /\ Stored(s) \in table' /\ Stored(s) \in Inserted(ins)
                 /\ Stored(s).key = s.key /\ Stored(s).seq = seq
      BY <1>1, StoredRow DEF Inserted
    <2>3. \A t \in table : t.seq < seq /\ t.seq \in Int /\ t \in table'
      BY <1>1, <1>2
    <2>4. ASSUME NEW x \in Shown'
          PROVE  x \in {t \in Shown : \A s \in ins : s.key # t.key} \cup Inserted(ins)
      <3>1. x \in table' /\ \A u \in table' : u.key = x.key => u.seq <= x.seq
        BY <1>4, <2>4
      <3>2. CASE x \in table
        <4>1. x \in Shown
          BY <1>3, <2>3, <3>1, <3>2
        <4>2. ASSUME NEW s \in ins, s.key = x.key PROVE FALSE
          <5>1. PICK u \in table' : u.key = x.key /\ u.seq = seq
            BY <2>2, <4>2
          <5>2. u.seq <= x.seq
            BY <3>1, <5>1
          <5>3. x.seq < seq /\ x.seq \in Int /\ seq \in Int
            BY <1>1, <2>3, <3>2
          <5>4. QED
            BY <5>1, <5>2, <5>3
        <4>3. QED
          BY <4>1, <4>2
      <3>3. ASSUME NEW s, New(x, s) PROVE x \in Inserted(ins)
        BY <2>2, <3>3
      <3>4. QED
        BY <2>1, <3>1, <3>2, <3>3
    <2>5. ASSUME NEW x \in Shown, \A s \in ins : s.key # x.key PROVE x \in Shown'
      <3>1. x \in table /\ \A u \in table : u.key = x.key => u.seq <= x.seq
        BY <1>3, <2>5
      <3>2. ASSUME NEW u \in table', u.key = x.key PROVE u \in table
        BY <2>1, <2>2, <2>5, <3>2
      <3>3. QED
        BY <1>4, <2>3, <3>1, <3>2
    <2>6. ASSUME NEW s \in ins PROVE Stored(s) \in Shown'
      <3>1. ASSUME NEW u \in table' PROVE u.seq <= seq
        <4>1. CASE u \in table
          BY <1>1, <2>3, <4>1
        <4>2. ASSUME NEW c, New(u, c) PROVE u.seq = seq
          BY <2>2, <4>2
        <4>3. QED
          BY <1>1, <2>1, <4>1, <4>2
      <3>2. QED
        BY <1>4, <2>2, <2>6, <3>1
    <2>7. \A x \in Inserted(ins) : x \in Shown'
      BY <2>6 DEF Inserted
    <2> HIDE DEF ins
    <2>8. QED
      BY <2>4, <2>5, <2>7
  <1>9. QED
    <2> HIDE DEF ins
    <2>1. QED
      BY <1>1, <1>2, <1>5, <1>7, <1>8, PutApplies

LEMMA Scd2Applies ==
  ASSUME plan.mode = "scd2_historical", VersionInv, Sound(plan), WriteScd2, phase' = "done"
  PROVE  Content' = Applied(Content, batch)
  <1>1. /\ plan' = plan /\ plan \in Plans
        /\ table \subseteq TargetRows
        /\ batch \in SUBSET SourceRows
        /\ seq \in 1 .. MaxWrites
        /\ OneRowEach(batch) /\ OneRowEach(CurrentRows)
        /\ \A s \in batch : s.key # Null
    BY DEF VersionInv, BatchUnique, Merges, VersionRows, LastIsCurrent, FedInv, Fits, Sound,
       WriteScd2, Writing, Commit, Refuse, TypeInv, TypeOK, Numbered
  <1>2. Shown = CurrentRows /\ Shown' = CurrentRows'
    BY <1>1 DEF Shown
  <1>3. Changed = {s \in batch : ~\E c \in Shown : c.key = s.key /\ RowHash(c) = RowHash(s)}
    <2>1. ASSUME NEW s \in batch
          PROVE  s \in Changed <=> ~\E c \in Shown : c.key = s.key /\ RowHash(c) = RowHash(s)
      <3>1. Previous(s) = {c \in CurrentRows : c.key = s.key}
        BY <1>1 DEF Previous
      <3>2. ASSUME NEW c \in Previous(s), NEW d \in Previous(s) PROVE c = d
        BY <1>1, <3>1, <3>2 DEF OneRowEach
      <3>3. s \in Changed <=> Previous(s) = {} \/ \E t \in Previous(s) : RowHash(t) # RowHash(s)
        BY DEF Changed
      <3>4. QED
        BY <1>2, <3>1, <3>2, <3>3
    <2>2. Changed \subseteq batch
      BY DEF Changed
    <2>3. QED
      BY <2>1, <2>2
  <1>4. Shown' = {t \in Shown : \A s \in Changed : s.key # t.key} \cup Inserted(Changed)
    <2>1. CASE table = {}
      <3>1. table' = Inserted(batch) /\ Shown = {}
        BY <1>2, <2>1 DEF WriteScd2, Commit, CurrentRows
      <3>2. Changed = batch
        BY <1>3, <3>1
      <3>3. \A x \in Inserted(batch) : x.until = 0
        BY StoredRow DEF Inserted
      <3>4. QED
        BY <1>2, <3>1, <3>2, <3>3 DEF CurrentRows
    <2>2. CASE table # {}
      <3>1. /\ table' = {Closed(t) : t \in table} \cup Inserted(Changed)
            /\ \A c \in CurrentRows, s \in Changed : c.key = s.key =>
                   RowHash(c) # RowHash(s) /\ Closed(c).until # 0
            /\ \A c \in CurrentRows : (\A s \in Changed : s.key # c.key) => Closed(c) = c
        BY <2>2, Scd2Writes
      <3>2. \A x \in Inserted(Changed) : x.until = 0
        BY StoredRow DEF Inserted
      <3>3. ASSUME NEW t \in table, t.until # 0 PROVE Closed(t).until # 0
        BY <3>3 DEF Closed, StagedFor
      <3>4. ASSUME NEW x \in CurrentRows'
            PROVE  x \in {t \in CurrentRows : \A s \in Changed : s.key # t.key} \cup Inserted(Changed)
        <4>1. x \in table' /\ x.until = 0
          BY DEF CurrentRows
        <4>2. ASSUME NEW t \in table, x = Closed(t)
              PROVE  x \in {c \in CurrentRows : \A s \in Changed : s.key # c.key}
          <5>1. t \in CurrentRows
            BY <3>3, <4>1, <4>2 DEF CurrentRows
          <5>2. \A s \in Changed : s.key # t.key
            BY <3>1, <4>1, <4>2, <5>1
          <5>3. QED
            BY <3>1, <4>2, <5>1, <5>2
        <4>3. QED
          BY <3>1, <4>1, <4>2
      <3>5. ASSUME NEW t \in CurrentRows, \A s \in Changed : s.key # t.key
            PROVE  t \in CurrentRows'
        BY <3>1, <3>5 DEF CurrentRows
      <3>6. \A x \in Inserted(Changed) : x \in CurrentRows'
        BY <3>1, <3>2 DEF CurrentRows
      <3>7. QED
        BY <1>2, <3>4, <3>5, <3>6
    <2>3. QED
      BY <2>1, <2>2
  <1>5. QED
    BY <1>1, <1>2, <1>3, <1>4, PutApplies

LEMMA HalfStep == BatchUnique /\ HalfInv /\ [Next]_vars => HalfInv'
  <1> SUFFICES ASSUME BatchUnique, HalfInv, [Next]_vars, phase' = "half" PROVE (Replaceable = {})'
    BY DEF HalfInv
  <1>1. CASE FallbackDelete
    BY <1>1 DEF FallbackDelete, Replaceable
  <1>2. FallbackDelete \/ UNCHANGED vars
    BY DEF Next, Prepare, WriteAppend, WriteOverwrite, FallbackAppend, WriteUpsert,
       ReplacePartitions, WriteHashDiff, WriteSnapshot, WriteScd2, Fail, Retry, Commit, Refuse
  <1>3. QED
    BY <1>1, <1>2 DEF HalfInv, Replaceable, vars

\* With sources that send what the modes cope with, the step that ends a write
\* does to the content what its mode says.
LEMMA DoneApplies ==
  ASSUME \A p \in Plans : Sound(p), VersionInv, HalfInv, [Next]_vars,
         phase \in {"write", "half"}, phase' = "done"
  PROVE  Content' = Applied(Content, batch)
  <1>1. Sound(plan) /\ (phase = "half" => plan.mode = "scd0_overwrite")
    BY DEF VersionInv, TypeInv, TypeOK, BatchUnique
  <1>2. CASE WriteAppend
    BY <1>1, <1>2, AppendApplies DEF WriteAppend, Writing, Committing
  <1>3. CASE WriteOverwrite
    BY <1>1, <1>3, OverwriteApplies DEF WriteOverwrite, Writing, Committing, Refuse
  <1>4. CASE FallbackAppend
    <2>1. table \ Replaceable = table
      BY <1>4 DEF FallbackAppend, HalfInv
    <2>2. QED
      BY <1>1, <1>4, <2>1, OverwriteApplies DEF FallbackAppend, Committing
  <1>5. CASE WriteUpsert
    BY <1>1, <1>5, UpsertApplies DEF WriteUpsert, Writing, Committing
  <1>6. CASE ReplacePartitions
    BY <1>1, <1>6, ReplaceApplies DEF ReplacePartitions, Writing, Committing, Refuse
  <1>7. CASE WriteHashDiff
    <2>1. PICK vals \in AffectedPartitionValues : \E l \in LatestRows(vals) :
             Commit(table \cup Inserted({s \in batch : ~Unchanged(s, l)}))
      BY <1>7 DEF WriteHashDiff
    <2>2. PICK latest \in LatestRows(vals) :
             Commit(table \cup Inserted({s \in batch : ~Unchanged(s, latest)}))
      BY <2>1
    <2>3. QED
      BY <1>1, <1>7, <2>2, HashDiffApplies DEF WriteHashDiff, Writing, Committing
  <1>8. CASE WriteSnapshot
    <2>1. OneRowEach(batch)
      BY <1>8 DEF WriteSnapshot, Writing, VersionInv, BatchUnique, Merges
    <2>2. QED
      BY <1>1, <1>8, <2>1, SnapshotApplies DEF WriteSnapshot, Writing, Committing
  <1>9. CASE WriteScd2
    BY <1>1, <1>9, Scd2Applies DEF WriteScd2, Writing
  <1>10. QED
    BY <1>2, <1>3, <1>4, <1>5, <1>6, <1>7, <1>8, <1>9 DEF Next, vars, Prepare, FallbackDelete,
       Fail, Retry, Refuse, Resting

\* A write of any mode that ends well, after whatever conflicts and retries,
\* has done to the state a reader sees what its mode says, as long as the
\* source sends what the mode copes with (WRITE_MODE_REGISTRY).
THEOREM WritesApply ==
  ASSUME \A p \in Plans : Sound(p)
  PROVE  Spec => WriteIsApplied
  <1> DEFINE AppliedStep == phase \in {"write", "half"} /\ phase' = "done"
                                => Content' = Applied(Content, batch)
  <1>1. VersionInv /\ HalfInv /\ [Next]_vars => AppliedStep
    BY DoneApplies
  <1>2. Init => HalfInv
    BY DEF Init, HalfInv
  <1>3. VersionInv /\ [Next]_vars => VersionInv'
    BY VersionStep
  <1>4. VersionInv => BatchUnique
    BY DEF VersionInv
  <1>5. QED
    BY <1>1, <1>2, <1>3, <1>4, VersionInit, HalfStep, PTL DEF Spec, WriteIsApplied

-----------------------------------------------------------------------------
(***************************************************************************)
(* Sequences of writes, failed ones among them: TargetIsReplay.            *)
(***************************************************************************)

\* An overwrite does not depend on what its range held.
LEMMA OverwriteForgets ==
  ASSUME plan.mode = "scd0_overwrite", NEW C, NEW B
  PROVE  /\ Applied(Applied(C, {}), B) = Applied(C, B)
         /\ Applied(C, {}) = {c \in C : plan.value \notin {Null, c.part}}
  BY DEF Applied

\* The first commit of the fallback takes the range out of the content.
LEMMA DeleteEmptiesRange ==
  ASSUME FallbackDelete
  PROVE  Content' = Applied(Content, {})
  <1>1. plan' = plan /\ plan.mode = "scd0_overwrite" /\ table' = table \ Replaceable
    BY DEF FallbackDelete, Writing
  <1>2. Shown = table /\ Shown' = table'
    BY <1>1 DEF Shown
  <1>3. Content' = {Row(t) : t \in table \ Replaceable} /\ Content = {Row(t) : t \in table}
    BY <1>1, <1>2 DEF Content, Row
  <1>4. \A t \in table : t \in Replaceable <=> plan.value \in {Null, t.part}
    BY DEF Replaceable
  <1>5. \A t \in table : Row(t).part = t.part
    BY DEF Row
  <1>6. QED
    BY <1>1, <1>3, <1>4, <1>5, OverwriteForgets

\* A step commits a write, or half of one, or leaves the content alone.
LEMMA StepsOfContent ==
  ASSUME [Next]_vars
  PROVE  \/ phase \in {"write", "half"} /\ phase' = "done" /\ plan' = plan /\ batch' = batch
            /\ written' = Applied(written, batch)
         \/ FallbackDelete
         \/ /\ Content' = Content /\ plan' = plan /\ written' = written
            /\ phase' = "done" => batch' = {} \/ (phase = "done" /\ batch' = batch)
  <1>1. \/ phase \in {"write", "half"} /\ phase' = "done" /\ plan' = plan /\ batch' = batch
           /\ written' = Applied(written, batch)
        \/ FallbackDelete
        \/ /\ table' = table /\ plan' = plan /\ written' = written
           /\ phase' = "done" => batch' = {} \/ (phase = "done" /\ batch' = batch)
    BY DEF Next, vars, Prepare, WriteAppend, WriteOverwrite, FallbackAppend, WriteUpsert,
       ReplacePartitions, WriteHashDiff, WriteSnapshot, WriteScd2, Fail, Retry, Commit, Refuse, Writing
  <1>2. table' = table /\ plan' = plan => Content' = Content
    BY DEF Content, Shown, CurrentRows
  <1>3. QED
    BY <1>1, <1>2

\* TargetIsReplay is inductive: what a failed overwrite took away is what the
\* next one replaces.
LEMMA ReplayStep ==
  ASSUME \A p \in Plans : Sound(p), VersionInv, HalfInv, TargetIsReplay, [Next]_vars
  PROVE  TargetIsReplay'
  <1>1. CASE /\ phase \in {"write", "half"} /\ phase' = "done" /\ plan' = plan /\ batch' = batch
             /\ written' = Applied(written, batch)
    <2>1. Content' = Applied(Content, batch)
      BY <1>1, DoneApplies
    <2>2. CASE Content = written
      BY <1>1, <2>1, <2>2 DEF TargetIsReplay
    <2>3. CASE plan.mode = "scd0_overwrite" /\ Content = Applied(written, {})
      BY <1>1, <2>1, <2>3, OverwriteForgets DEF TargetIsReplay
    <2>4. QED
      BY <2>2, <2>3 DEF TargetIsReplay
  <1>2. CASE FallbackDelete
    <2>1. /\ plan' = plan /\ plan.mode = "scd0_overwrite"
          /\ phase' = "half" /\ written' = written
      BY <1>2 DEF FallbackDelete, Writing
    <2>2. Content' = Applied(written, {})
      BY <1>2, <2>1, DeleteEmptiesRange, OverwriteForgets DEF TargetIsReplay
    <2>3. Applied(written, {})' = Applied(written, {})
      BY <2>1 DEF Applied
    <2>4. QED
      BY <2>1, <2>2, <2>3 DEF TargetIsReplay
  <1>3. CASE /\ Content' = Content /\ plan' = plan /\ written' = written
             /\ phase' = "done" => batch' = {} \/ (phase = "done" /\ batch' = batch)
    <2>1. CASE Content = written
      BY <1>3, <2>1 DEF TargetIsReplay
    <2>2. CASE /\ plan.mode = "scd0_overwrite" /\ Content = Applied(written, {})
               /\ phase = "done" => batch = {}
      <3>1. Applied(written, {})' = Applied(written, {})
        BY <1>3, <2>2 DEF Applied
      <3>2. QED
        BY <1>3, <2>2, <3>1 DEF TargetIsReplay
    <2>3. QED
      BY <2>1, <2>2 DEF TargetIsReplay
  <1>4. QED
    BY <1>1, <1>2, <1>3, StepsOfContent

\* Over any number of writes that fail, half done or not, are retried or
\* succeed, the target shows what the successful ones alone account for; only
\* the range of an overwrite may be missing, from the first commit of the
\* fallback until an overwrite ends well (with_retry, write_overwrite).
THEOREM ReplayOfSuccesses ==
  ASSUME \A p \in Plans : Sound(p)
  PROVE  Spec => []TargetIsReplay
  <1>1. Init => HalfInv /\ TargetIsReplay
    BY DEF Init, HalfInv, TargetIsReplay, Content, Shown, CurrentRows
  <1>2. VersionInv /\ [Next]_vars => VersionInv'
    BY VersionStep
  <1>3. VersionInv => BatchUnique
    BY DEF VersionInv
  <1>4. VersionInv /\ HalfInv /\ TargetIsReplay /\ [Next]_vars => TargetIsReplay'
    BY ReplayStep
  <1>5. QED
    BY <1>1, <1>2, <1>3, <1>4, VersionInit, HalfStep, PTL DEF Spec
=============================================================================
