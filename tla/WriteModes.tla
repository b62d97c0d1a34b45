------------------------------ MODULE WriteModes ------------------------------
(***************************************************************************)
(* execute_write_mode (writers.py) and what _prepare_dataframe and         *)
(* _validate_merge_source_safety (ingestion.py) do to its input: a         *)
(* sequence of writes of one contract to one Delta target, in each of the  *)
(* six write modes.  The writes of a target do not overlap here: its lock  *)
(* is IngestRun's subject.                                                 *)
(*                                                                         *)
(* A source row has a key (one merge or hash key), a value and a           *)
(* partition.  A target row has, on top of these, the ingestion timestamp  *)
(* seq of the write that set its columns, the write born that inserted it  *)
(* (its identity) and until, which is valid_to and deleted_at: 0 is NULL   *)
(* and stands for is_current, is_active.  Hashes do not collide.           *)
(***************************************************************************)
EXTENDS Integers, FiniteSets, FiniteSetsExt

CONSTANTS
    Keys,                \* the keys of the source rows
    Null,                \* SQL NULL in a key column, and no partition_value
    Values,              \* the values of the source rows, ordered
    Parts,               \* the values of the partition column
    Home,                \* the partition of a key that never moves
    Plans,               \* the contracts
    MaxPredicateValues,  \* CONFIG.max_partition_predicate_values
    MaxBatch,            \* bound on the rows of one source read
    MaxWrites,           \* bound on the number of writes
    Faults               \* what may go wrong

FaultKinds ==
    {"error",        \* a write raises an exception that is not retried
     "conflict",     \* a concurrency exception, which with_retry retries
     "no_truncate"}  \* a runtime whose overwrite does not support truncate

Modes == {"scd0_append", "scd0_overwrite", "scd1_upsert", "scd1_hash_diff",
          "snapshot_soft_delete", "scd2_historical"}
Strategies == {"delta", "delta_by_partition", "replace_partitions"}

\* partitioned: partition_column or merge_partition_column is configured;
\* value is partition_value; ordered: dedup_order_expr is "value DESC"; wide:
\* the partition column is one of the hashed columns.  feeds is what the
\* source may send: NULL keys, several rows of a key, a key that changes
\* partition.
PlanType == [mode : Modes, strategy : Strategies, partitioned : BOOLEAN,
             value : Parts \cup {Null}, ordered : BOOLEAN, wide : BOOLEAN,
             feeds : SUBSET {"null", "dup", "move"}]

ASSUME WriteConstants ==
    /\ Null \notin Keys \cup Parts
    /\ Values \subseteq Int
    /\ Home \in [Keys \cup {Null} -> Parts]
    /\ {MaxPredicateValues, MaxBatch, MaxWrites} \subseteq Nat
    /\ Faults \subseteq FaultKinds
ASSUME WritePlans ==
    /\ Plans \subseteq PlanType
    /\ \A p \in Plans : /\ p.value # Null => p.partitioned
                        /\ p.strategy # "delta" => p.mode = "scd1_upsert" /\ p.partitioned
                        /\ p.mode = "snapshot_soft_delete" => p.wide

VARIABLES
    plan,   \* the contract
    table,  \* the rows of the target
    seq,    \* the number of the current write
    batch,  \* prepared_df
    phase,  \* where execute_write_mode is
    written \* ghost: the content that the writes that ended well account for

vars == <<plan, table, seq, batch, phase, written>>

SourceRows == [key : Keys \cup {Null}, val : Values, part : Parts]
TargetRows == [key : Keys \cup {Null}, val : Values, part : Parts,
               seq : 1 .. MaxWrites, born : 1 .. MaxWrites, until : 0 .. MaxWrites]

Resting == {"ready", "done", "failed"}

TypeOK ==
    /\ plan \in Plans
    /\ table \subseteq TargetRows
    /\ seq \in 0 .. MaxWrites
    /\ batch \subseteq SourceRows
    /\ phase \in Resting \cup {"write", "half"}
    /\ written \subseteq SourceRows
-----------------------------------------------------------------------------
(***************************************************************************)
(* The input of a write.                                                   *)
(***************************************************************************)
KeysOf(S)  == {x.key : x \in S}
PartsOf(S) == {x.part : x \in S}
OneRowEach(S) == \A x, y \in S : x.key = y.key => x = y

\* deduplicate_by_order with the order "column DESC": one row of each key,
\* with the greatest column.  ROW_NUMBER breaks a tie either way, and NULL
\* keys are one group.
DeduplicateByOrder(S, column) ==
    {T \in SUBSET S :
        /\ KeysOf(T) = KeysOf(S)
        /\ OneRowEach(T)
        /\ \A x \in T, y \in S : x.key = y.key => y[column] <= x[column]}

\* What the source may yield, by the contract's feeds.
Fed ==
    {x \in SourceRows : /\ x.key = Null => "null" \in plan.feeds
                        /\ x.part # Home[x.key] => "move" \in plan.feeds}
Reads ==
    {S \in UNION {kSubset(n, Fed) : n \in 0 .. MaxBatch} :
        "dup" \in plan.feeds \/ OneRowEach(S)}

\* The deduplication of _prepare_dataframe.
Prepared(S) == IF plan.ordered THEN DeduplicateByOrder(S, "val") ELSE {S}

Merges == {"scd1_upsert", "snapshot_soft_delete", "scd2_historical"}

\* _validate_merge_source_safety: NULL keys only, or two rows of a key.
Refused(B) == plan.mode \in Merges /\ (KeysOf(B) = {Null} \/ ~OneRowEach(B))

\* The columns of row_hash other than the keys.
RowHash(x) == IF plan.wide THEN <<x.val, x.part>> ELSE <<x.val>>

\* affected_partition_values: distinct values of the batch, up to the limit.
AffectedPartitionValues ==
    {V \in SUBSET PartsOf(batch) :
        Cardinality(V) = Min({MaxPredicateValues, Cardinality(PartsOf(batch))})}

\* A new target row.
Stored(x) ==
    [key |-> x.key, val |-> x.val, part |-> x.part, seq |-> seq, born |-> seq, until |-> 0]
Inserted(S) == {Stored(x) : x \in S}
-----------------------------------------------------------------------------
(***************************************************************************)
(* What a write promises: the content of the target after it, by its mode. *)
(***************************************************************************)

\* The content after a write of B.  A row whose hashed columns did not change
\* is not a change.
Put(C, B) ==
         {c \in C : c.key \notin KeysOf(B) \/ \E b \in B : b.key = c.key /\ RowHash(b) = RowHash(c)}
    \cup {b \in B : ~\E c \in C : c.key = b.key /\ RowHash(b) = RowHash(c)}

Applied(C, B) ==
    CASE plan.mode = "scd0_append" -> C \cup B
      [] plan.mode = "scd0_overwrite" ->
             {c \in C : plan.value \notin {Null, c.part}} \cup B
      [] plan.mode = "snapshot_soft_delete" -> B
      [] plan.mode = "scd1_upsert" ->
             {c \in C : IF plan.strategy = "replace_partitions"
                        THEN c.part \notin PartsOf(B) ELSE c.key \notin KeysOf(B)} \cup B
      [] OTHER -> Put(C, B)
-----------------------------------------------------------------------------
Init ==
    /\ plan \in Plans
    /\ table = {}
    /\ seq = 0
    /\ batch = {}
    /\ phase = "ready"
    /\ written = {}

\* A run reads the source.  execute_write_mode returns at once on no rows.
Prepare ==
    /\ phase \in Resting
    /\ seq < MaxWrites
    /\ seq' = seq + 1
    /\ \E S \in Reads : batch' \in Prepared(S)
    /\ phase' = IF Refused(batch') THEN "failed" ELSE IF batch' = {} THEN "done" ELSE "write"
    /\ UNCHANGED <<plan, table, written>>

Writing(mode) == phase = "write" /\ plan.mode = mode

Commit(rows) ==
    /\ table' = rows
    /\ phase' = "done"
    /\ written' = Applied(written, batch)
    /\ UNCHANGED <<plan, seq, batch>>

Refuse ==
    /\ phase' = "failed"
    /\ UNCHANGED <<plan, table, seq, batch, written>>

WriteAppend == Writing("scd0_append") /\ Commit(table \cup Inserted(batch))
-----------------------------------------------------------------------------
(***************************************************************************)
(* scd0_overwrite.  The fallback, for a runtime without truncate, is two   *)
(* commits: it deletes the partition or drops the table, then appends.     *)
(***************************************************************************)

\* The target rows an overwrite replaces.
Replaceable == IF plan.value = Null THEN table ELSE {t \in table : t.part = plan.value}

\* Delta refuses a row that does not satisfy replaceWhere.
WriteOverwrite ==
    /\ Writing("scd0_overwrite")
    /\ IF plan.value # Null /\ PartsOf(batch) # {plan.value}
       THEN Refuse
       ELSE Commit((table \ Replaceable) \cup Inserted(batch))

\* Faulty variant of FallbackDelete: drops the table, whatever the partition.
FallbackDropTable ==
    /\ "no_truncate" \in Faults
    /\ Writing("scd0_overwrite")
    /\ table' = {}
    /\ phase' = "half"
    /\ UNCHANGED <<plan, seq, batch, written>>

FallbackDelete ==
    /\ "no_truncate" \in Faults
    /\ Writing("scd0_overwrite")
    /\ table' = table \ Replaceable
    /\ phase' = "half"
    /\ UNCHANGED <<plan, seq, batch, written>>

FallbackAppend == phase = "half" /\ Commit(table \cup Inserted(batch))
-----------------------------------------------------------------------------
(***************************************************************************)
(* scd1_upsert.                                                            *)
(***************************************************************************)

\* Faulty variant of Matches: = for <=>.
MatchesEqual(t, s, vals) == t.key = s.key /\ s.key # Null

\* t.key <=> s.key, and the partition predicate of delta_by_partition.
Matches(t, s, vals) ==
    /\ t.key = s.key
    /\ plan.strategy = "delta_by_partition" => t.part \in vals

\* UPDATE SET of every column that is not a key, in a row of the same key.
Updated(t, s) == [Stored(s) EXCEPT !.born = t.born]

WriteUpsert ==
    /\ Writing("scd1_upsert")
    /\ plan.strategy # "replace_partitions"
    /\ \E vals \in AffectedPartitionValues :
           Commit(    {t \in table : \A s \in batch : ~Matches(t, s, vals)}
                 \cup {Updated(m[1], m[2]) :
                         m \in {n \in table \X batch : Matches(n[1], n[2], vals)}}
                 \cup Inserted({s \in batch : \A t \in table : ~Matches(t, s, vals)}))

\* Overwrites the partitions of the batch; Delta refuses rows of others.
ReplacePartitions ==
    /\ Writing("scd1_upsert")
    /\ plan.strategy = "replace_partitions"
    /\ \E vals \in AffectedPartitionValues :
           IF PartsOf(batch) \subseteq vals
           THEN Commit({t \in table : t.part \notin vals} \cup Inserted(batch))
           ELSE Refuse
-----------------------------------------------------------------------------
(***************************************************************************)
(* scd1_hash_diff appends the rows that differ from the latest row of      *)
(* their key.  The join on the keys never matches NULL, and a partitioned  *)
(* target is read for the partitions of the batch only.                    *)
(***************************************************************************)

\* Faulty variants of LatestRows: every version counts as the latest; the
\* order is turned around.
EveryVersion(vals) == {table}
EarliestRows(vals) == {{t \in table : \A u \in table : u.key = t.key => t.seq <= u.seq}}

LatestRows(vals) ==
    LET read == IF plan.partitioned THEN {t \in table : t.part \in vals} ELSE table
    IN  IF plan.ordered THEN DeduplicateByOrder(read, "val")
        ELSE DeduplicateByOrder(read, "seq")

\* A left join row whose hash is the one of the target.
Unchanged(s, latest) ==
    \E t \in latest : t.key = s.key /\ s.key # Null /\ RowHash(t) = RowHash(s)

WriteHashDiff ==
    /\ Writing("scd1_hash_diff")
    /\ \E vals \in AffectedPartitionValues : \E latest \in LatestRows(vals) :
           Commit(table \cup Inserted({s \in batch : ~Unchanged(s, latest)}))
-----------------------------------------------------------------------------
(***************************************************************************)
(* snapshot_soft_delete: one MERGE that also closes the rows the snapshot  *)
(* no longer has.                                                          *)
(***************************************************************************)
SnapshotRow(t) ==
    LET matching == {s \in batch : s.key = t.key}
    IN  IF matching = {}
        THEN IF t.until = 0 THEN [t EXCEPT !.until = seq] ELSE t
        ELSE LET s == CHOOSE s \in matching : TRUE
             IN  IF RowHash(t) # RowHash(s) \/ t.until # 0 THEN Updated(t, s) ELSE t

WriteSnapshot ==
    /\ Writing("snapshot_soft_delete")
    /\ Commit({SnapshotRow(t) : t \in table}
              \cup Inserted({s \in batch : s.key \notin KeysOf(table)}))
-----------------------------------------------------------------------------
(***************************************************************************)
(* scd2_historical.  A changed row is staged with a NULL merge key, to be  *)
(* inserted, and, when its key has a current row, a second time with its   *)
(* key, to close that row.                                                 *)
(***************************************************************************)
CurrentRows == {t \in table : t.until = 0}

\* The current rows that the join on the keys finds for a source row.
Previous(s) == {t \in CurrentRows : t.key = s.key /\ s.key # Null}

Changed ==
    {s \in batch : Previous(s) = {} \/ \E t \in Previous(s) : RowHash(t) # RowHash(s)}

Staged ==
         {[row |-> s, mergeKey |-> Null] : s \in Changed}
    \cup {[row |-> s, mergeKey |-> s.key] : s \in {c \in Changed : Previous(c) # {}}}

\* Faulty variant of StagedFor: the condition on is_current is left out.
StagedForAnyVersion(t) == {g \in Staged : g.mergeKey = t.key}

\* ON t.key <=> s.__merge_key AND t.is_current
StagedFor(t) == {g \in Staged : g.mergeKey = t.key /\ t.until = 0}

Closed(t) ==
    IF \E g \in StagedFor(t) : RowHash(t) # RowHash(g.row) THEN [t EXCEPT !.until = seq] ELSE t

\* Delta refuses a MERGE in which two source rows match one target row.
WriteScd2 ==
    /\ Writing("scd2_historical")
    /\ IF table = {} THEN Commit(Inserted(batch))
       ELSE IF \E t \in table : Cardinality(StagedFor(t)) > 1 THEN Refuse
       ELSE Commit({Closed(t) : t \in table}
                   \cup Inserted({g.row : g \in {h \in Staged : \A t \in table : h \notin StagedFor(t)}}))
-----------------------------------------------------------------------------
\* An exception that with_retry does not retry.
Fail == "error" \in Faults /\ phase \in {"write", "half"} /\ Refuse

\* A concurrency exception: with_retry runs the write from its start.  Before
\* the first commit that changes nothing.
Retry ==
    /\ "conflict" \in Faults
    /\ phase = "half"
    /\ phase' = "write"
    /\ UNCHANGED <<plan, table, seq, batch, written>>

Next ==
    \/ Prepare
    \/ WriteAppend \/ WriteOverwrite \/ FallbackDelete \/ FallbackAppend
    \/ WriteUpsert \/ ReplacePartitions \/ WriteHashDiff \/ WriteSnapshot \/ WriteScd2
    \/ Fail \/ Retry

Spec == Init /\ [][Next]_vars
-----------------------------------------------------------------------------
(***************************************************************************)
(* Properties.                                                             *)
(***************************************************************************)

\* The rows a reader takes for the state of the entity, by the mode.
Shown ==
    CASE plan.mode \in {"snapshot_soft_delete", "scd2_historical"} -> CurrentRows
      [] plan.mode = "scd1_hash_diff" ->
             {t \in table : \A u \in table : u.key = t.key => u.seq <= t.seq}
      [] OTHER -> table
Content == {[key |-> t.key, val |-> t.val, part |-> t.part] : t \in Shown}

\* A write that ends well has done to the state shown by the target what its
\* mode says, and nothing else: in particular every changed key shows its new
\* row and the keys the batch does not have keep theirs (writers.py, the
\* handlers of WRITE_MODE_REGISTRY; the staging of write_scd2).
WriteIsApplied ==
    [][(phase \in {"write", "half"} /\ phase' = "done")
           => Content' = Applied(Content, batch)]_vars

\* The merging modes keep one row of a key, SCD2 one current row: no sequence
\* of MERGEs, with NULL keys or keys that move, inserts a second one.
OneRowPerKey ==
    /\ plan.mode \in {"scd1_upsert", "snapshot_soft_delete"} => OneRowEach(table)
    /\ plan.mode = "scd2_historical" => OneRowEach(CurrentRows)

\* Append, hash diff and SCD2 never lose or rewrite a version: a step leaves
\* every stored row as it is or closes a row that was current.
HistoryKept ==
    [][plan.mode \in {"scd0_append", "scd1_hash_diff", "scd2_historical"} =>
           \A t \in table \ table' : t.until = 0 /\ [t EXCEPT !.until = seq] \in table']_vars

\* Two successive versions of a key differ in their hashed columns: replaying
\* a batch that is already there adds no version (hash diff, SCD2).
VersionsAreChanges ==
    plan.mode \in {"scd1_hash_diff", "scd2_historical"} =>
        \A t, u \in table :
            (/\ t.key = u.key /\ t.born < u.born
             /\ ~\E v \in table : v.key = t.key /\ t.born < v.born /\ v.born < u.born)
            => RowHash(t) # RowHash(u)

\* The target is the replay of the writes that ended well: over any sequence of
\* writes that fail, half done or not, are retried or succeed, it shows the rows
\* of no failed write and has lost none of a successful one, except that the
\* range of an overwrite may be missing from the first commit of the fallback
\* until the next overwrite that ends well (with_retry around
\* execute_write_mode, the except clause of write_overwrite).
TargetIsReplay ==
    \/ Content = written
    \/ /\ plan.mode = "scd0_overwrite"
       /\ phase = "done" => batch = {}
       /\ Content = Applied(written, {})
=============================================================================
