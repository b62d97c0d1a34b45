----------------------------- MODULE Preparation -----------------------------
(***************************************************************************)
(* What ingest_plan (ingestion.py) does with a batch between the read and  *)
(* the commit: the transformations of _prepare_dataframe, the schema       *)
(* policy and the evolution of the target (schema.py), the quality gates   *)
(* and the quarantine (quality.py), the hooks (hooks.py) and the checks    *)
(* that protect a MERGE.  Runs of one contract share the target.           *)
(*                                                                         *)
(* A row has a key and one value, which is good, bad or NULL for the       *)
(* quality rules; rows are numbered in the order of dedup_order_expr, the  *)
(* newest last.  The watermark is in SourceRead, the lock and the control  *)
(* tables of runs in IngestRun, the commit of a mode in WriteModes.        *)
(***************************************************************************)
EXTENDS Integers, Sequences, FiniteSets, Functions

CONSTANTS
    Runs,       \* calls of ingest_plan
    Scenarios,  \* a contract, with the tables, schemas and rows it may meet
    Null,       \* SQL NULL, as a key
    k1,         \* what a hook that normalises keys makes of them
    FirstAlone, \* no run overlaps the one that creates the target
    Faults      \* what may go wrong

(***************************************************************************)
(* Types: <<"integer", rank>>, <<"floating", rank>>, <<"time", rank>> with *)
(* the ranks of schema.py, <<"decimal", precision, scale>>, <<"string">>.  *)
(* A schema is a function from column names to types.                      *)
(***************************************************************************)
Text == <<"string">>
Double == <<"floating", 1>>
NoTable == <<>>

\* CONTROL_COLUMNS: this one stands for all of them.
Control == {"__run_id"}

RuleKinds == {"required_columns", "not_null", "accepted_values", "max_null_ratio",
              "expression", "unique_key", "min_rows"}

\* Schemas are functions, whatever their columns.
IsSchema(s) == s = [c \in DOMAIN s |-> s[c]]

IsScenario(s) ==
    /\ s.mode \in {"append", "overwrite", "merge"}
    /\ s.policy \in {"strict", "additive_only", "permissive"}
    /\ {s.widening, s.dedup} \subseteq BOOLEAN
    /\ \A rule \in s.rules : rule.kind \in RuleKinds /\ rule.severity \in {"warn", "quarantine", "abort"}
    /\ s.onFail \in {"fail", "quarantine", "warn"}
    /\ s.hook \in {"none", "filters", "normalises"}
    /\ s.runs \subseteq Runs
    /\ \A t \in s.tables : IsSchema(t)

ASSUME ScenariosAssumption == \A s \in Scenarios : IsScenario(s)
ASSUME PreparationFaultsAssumption ==
    FirstAlone \in BOOLEAN /\ Faults \subseteq {"statement", "crash"}

VARIABLES
    contract,   \* the scenario that happens
    schema,     \* the schema of the target, NoTable before it exists
    target,     \* the rows in the target, each with the run that wrote it
    quarantine, \* ctrl_ingestion_quarantine
    results,    \* ctrl_ingestion_quality: the failed rules of each run
    evolved,    \* ctrl_ingestion_schema_changes: the columns each run reported
    runLog,     \* ctrl_ingestion_runs
    pc,         \* the next statement of each run
    source,     \* raw_df of each run, a schema and rows
    batch,      \* prepared_df of each run
    columns,    \* the schema of prepared_df
    rowsRead,   \* the rows counted as rows_read
    changes,    \* local variable schema_changes
    failed,     \* failed_rules of evaluate_quality
    isolated,   \* quarantined_df of evaluate_quality
    quality     \* local variable quality_status

tables == <<schema, target, quarantine, results, evolved, runLog>>
local == <<source, batch, columns, rowsRead, changes, failed, isolated, quality>>
vars == <<contract, tables, pc, local>>

Stages == {"prepare", "schema", "add", "widen", "report", "evaluate", "log_rules", "decide", "isolate",
           "check", "hook", "check_again", "write"}
Handlers == {"succeeded", "raised"}
Ended == {"done", "crashed"}

NoChanges == [status |-> "new_table", added |-> {}, types |-> {}]

TypeOK ==
    /\ contract \in Scenarios
    /\ pc \in [Runs -> {"idle"} \cup Stages \cup Handlers \cup Ended]
    /\ \A w \in target \cup quarantine : w.run \in contract.runs
    /\ \A r \in Runs : isolated[r] \subseteq rowsRead[r]
    /\ quality \in [Runs -> {"NOT_CONFIGURED", "PASSED", "WARNED", "FAILED"}]

Init ==
    /\ contract \in Scenarios
    /\ schema \in contract.tables
    /\ target = {} /\ quarantine = {} /\ results = {} /\ evolved = {} /\ runLog = {}
    /\ pc = [r \in Runs |-> "idle"]
    /\ source = [r \in Runs |-> [schema |-> NoTable, rows |-> <<>>]]
    /\ batch = [r \in Runs |-> {}]
    /\ columns = [r \in Runs |-> NoTable]
    /\ rowsRead = [r \in Runs |-> {}]
    /\ changes = [r \in Runs |-> NoChanges]
    /\ failed = [r \in Runs |-> {}]
    /\ isolated = [r \in Runs |-> {}]
    /\ quality = [r \in Runs |-> "NOT_CONFIGURED"]

Goto(r, label) == pc' = [pc EXCEPT ![r] = label]
-----------------------------------------------------------------------------
(***************************************************************************)
(* _prepare_dataframe.                                                     *)
(***************************************************************************)

\* _validate_column_mapping: the sources exist, the destinations are
\* different, not reserved and not taken.
MappingOK(m, names) ==
    /\ DOMAIN m \subseteq names
    /\ IsInjective(m)
    /\ Range(m) \cap Control = {}
    /\ \A c \in DOMAIN m : m[c] \in names => m[c] = c

NameOf(m, c) == IF c \in DOMAIN m THEN m[c] ELSE c

\* Renamed columns, without reserved ones of the source, with our own.
PreparedSchema(m, s) ==
    LET kept == {c \in DOMAIN s : NameOf(m, c) \notin Control}
    IN  [name \in {NameOf(m, c) : c \in kept} \cup Control |->
            IF name \in Control THEN Text ELSE s[CHOOSE c \in kept : NameOf(m, c) = name]]

RowsOf(seq) == {[id |-> i, key |-> seq[i].key, val |-> seq[i].val] : i \in DOMAIN seq}

\* deduplicate_by_order: the first row of each key; the rows without a key
\* are one partition.
Deduplicate(rows) == {row \in rows : \A other \in rows : other.key = row.key => other.id <= row.id}

\* Where FirstAlone, a run waits until the table is there or nobody is creating it.
MayStart == FirstAlone /\ schema = NoTable => \A r \in Runs : pc[r] \in {"idle"} \cup Ended

Read(r) ==
    /\ pc[r] = "idle" /\ r \in contract.runs /\ MayStart
    /\ \E s \in contract.schemas, rows \in contract.batches :
          source' = [source EXCEPT ![r] = [schema |-> s, rows |-> rows]]
    /\ Goto(r, "prepare")
    /\ UNCHANGED <<contract, tables, batch, columns, rowsRead, changes, failed, isolated, quality>>

Prepare(r) ==
    /\ pc[r] = "prepare"
    /\ LET rows == RowsOf(source[r].rows)
           kept == IF contract.dedup THEN Deduplicate(rows) ELSE rows
       IN  IF MappingOK(contract.mapping, DOMAIN source[r].schema)
           THEN /\ batch' = [batch EXCEPT ![r] = kept]
                /\ rowsRead' = [rowsRead EXCEPT ![r] = kept]
                /\ columns' = [columns EXCEPT ![r] = PreparedSchema(contract.mapping, source[r].schema)]
                /\ Goto(r, "schema")
           ELSE Goto(r, "raised") /\ UNCHANGED <<batch, rowsRead, columns>>
    /\ UNCHANGED <<contract, tables, source, changes, failed, isolated, quality>>
-----------------------------------------------------------------------------
(***************************************************************************)
(* The schema policy and the evolution of the target.                      *)
(***************************************************************************)

\* is_type_widening.
IsTypeWidening(from, to) ==
    \/ to = from
    \/ to[1] = from[1] /\ to[1] \in {"integer", "floating"} /\ to[2] >= from[2]
    \/ to = Double /\ from[1] = "integer"
    \/ to = <<"time", 1>> /\ from = <<"time", 0>>
    \/ to[1] = "decimal" /\ from[1] = "decimal" /\ to[2] >= from[2] /\ to[3] >= from[3]

\* What ALTER COLUMN TYPE accepts: no value of the column may get lost.
TypeChangeSupported(from, to) ==
    \/ to[1] = from[1] /\ to[1] \in {"integer", "floating"} /\ to[2] >= from[2]
    \/ to = Double /\ from[1] = "integer" /\ from[2] <= 2
    \/ to[1] = "decimal" /\ from[1] = "decimal" /\ to[2] - to[3] >= from[2] - from[3] /\ to[3] >= from[3]

\* Faulty variant of Allowed: without allow_type_widening too.
AllowedAlways(from, to) == IsTypeWidening(from, to)

Allowed(from, to) == contract.widening /\ IsTypeWidening(from, to)

Added(new) == DOMAIN new \ DOMAIN schema
Removed(new) == (DOMAIN schema \ DOMAIN new) \ Control
Retyped(new) == {c \in DOMAIN schema \cap DOMAIN new : schema[c] # new[c]}

\* validate_schema_policy, on a target that exists.
Violates(new) ==
    LET blocking == {c \in Retyped(new) : ~Allowed(schema[c], new[c])}
    IN  CASE contract.policy = "strict"        -> Added(new) \cup Removed(new) \cup Retyped(new) # {}
          [] contract.policy = "additive_only" -> Removed(new) \cup blocking # {}
          [] contract.policy = "permissive"    -> blocking # {}

\* The schema s with those columns of new that it lacks.
ExtendedBy(s, new) ==
    [c \in DOMAIN s \cup DOMAIN new |-> IF c \in DOMAIN s THEN s[c] ELSE new[c]]

CheckSchema(r) ==
    /\ pc[r] = "schema"
    /\ IF ~(contract.required \subseteq DOMAIN columns[r]) \/ (schema # NoTable /\ Violates(columns[r]))
       THEN Goto(r, "raised") /\ UNCHANGED changes
       ELSE /\ changes' = [changes EXCEPT ![r] =
                  IF schema = NoTable THEN NoChanges
                  ELSE [status |-> "checked", added |-> Added(columns[r]), types |-> Retyped(columns[r])]]
            /\ Goto(r, "add")
    /\ UNCHANGED <<contract, tables, source, batch, columns, rowsRead, failed, isolated, quality>>

\* ALTER TABLE ADD COLUMNS; a column somebody has added meanwhile is refused.
AddColumns(r) ==
    /\ pc[r] = "add"
    /\ IF changes[r].added \cap DOMAIN schema = {}
       THEN /\ schema' = IF changes[r].added = {} THEN schema
                         ELSE ExtendedBy(schema, Restrict(columns[r], changes[r].added))
            /\ Goto(r, "widen")
       ELSE Goto(r, "raised") /\ UNCHANGED schema
    /\ UNCHANGED <<contract, target, quarantine, results, evolved, runLog, local>>

\* ALTER COLUMN TYPE, one column after the other.
WidenColumn(r) ==
    /\ pc[r] = "widen"
    /\ LET open == {c \in changes[r].types : schema[c] # columns[r][c]}
       IN  IF open = {} THEN Goto(r, "report") /\ UNCHANGED schema
           ELSE \E c \in open :
                   IF TypeChangeSupported(schema[c], columns[r][c])
                   THEN schema' = [schema EXCEPT ![c] = columns[r][c]] /\ UNCHANGED pc
                   ELSE Goto(r, "raised") /\ UNCHANGED schema
    /\ UNCHANGED <<contract, target, quarantine, results, evolved, runLog, local>>

\* log_schema_changes.
ReportChanges(r) ==
    /\ pc[r] = "report"
    /\ evolved' = evolved \cup {[run |-> r, column |-> c] : c \in changes[r].added \cup changes[r].types}
    /\ Goto(r, "evaluate")
    /\ UNCHANGED <<contract, schema, target, quarantine, results, runLog, local>>
-----------------------------------------------------------------------------
(***************************************************************************)
(* The quality gates.  A condition of SQL is "yes", "no" or "null".        *)
(***************************************************************************)

\* Faulty variant of Invalid: an expression that yields NULL is not invalid.
InvalidWithoutNull(rule, row) ==
    CASE rule.kind \in {"not_null", "max_null_ratio"} -> IF row.val = "null" THEN "yes" ELSE "no"
      [] rule.kind = "accepted_values"                -> IF row.val = "bad" THEN "yes" ELSE "no"
      [] rule.kind = "expression" -> IF row.val = "null" THEN "null"
                                     ELSE IF row.val = "bad" THEN "yes" ELSE "no"
      [] OTHER                                        -> "no"

\* The condition under which a rule isolates a row.  NULL is accepted by
\* accepted_values and invalid for an expression.
Invalid(rule, row) ==
    CASE rule.kind \in {"not_null", "max_null_ratio"} -> IF row.val = "null" THEN "yes" ELSE "no"
      [] rule.kind = "accepted_values"                -> IF row.val = "bad" THEN "yes" ELSE "no"
      [] rule.kind = "expression"                     -> IF row.val = "good" THEN "no" ELSE "yes"
      [] OTHER                                        -> "no"

AnyOf(conditions) ==
    IF "yes" \in conditions THEN "yes" ELSE IF "null" \in conditions THEN "null" ELSE "no"

Hits(rule, rows) == {row \in rows : Invalid(rule, row) = "yes"}
Duplicated(rows) == {row.key : row \in {x \in rows : \E y \in rows : y # x /\ y.key = x.key}}

MinRows == 2

\* The rules that end up in failed_rules; the ratio allowed is one half.
Fails(rule, rows, names) ==
    CASE rule.kind = "required_columns" -> ~({"v"} \subseteq names)
      [] rule.kind = "unique_key"       -> Duplicated(rows) # {}
      [] rule.kind = "min_rows"         -> Cardinality(rows) < MinRows
      [] rule.kind = "max_null_ratio"   -> 2 * Cardinality(Hits(rule, rows)) > Cardinality(rows)
      [] OTHER                          -> Hits(rule, rows) # {}

\* evaluate_quality; a rule about a column that is not there raises.
Evaluate(r) ==
    /\ pc[r] = "evaluate"
    /\ LET hit == {rule \in contract.rules : Fails(rule, batch[r], DOMAIN columns[r])}
           condition(row) == AnyOf({Invalid(rule, row) : rule \in {x \in hit : x.severity = "quarantine"}})
       IN  IF /\ "v" \notin DOMAIN columns[r]
              /\ \E rule \in contract.rules : rule.kind \notin {"required_columns", "unique_key", "min_rows"}
           THEN Goto(r, "raised") /\ UNCHANGED <<failed, isolated, quality>>
           ELSE /\ failed' = [failed EXCEPT ![r] = hit]
                /\ isolated' = [isolated EXCEPT ![r] = {row \in batch[r] : condition(row) = "yes"}]
                /\ quality' = [quality EXCEPT ![r] =
                      IF contract.rules = {} THEN "NOT_CONFIGURED" ELSE IF hit = {} THEN "PASSED"
                      ELSE IF \A rule \in hit : rule.severity = "warn" THEN "WARNED" ELSE "FAILED"]
                /\ Goto(r, "log_rules")
    /\ UNCHANGED <<contract, tables, source, batch, columns, rowsRead, changes>>

\* write_quality_results.
LogRules(r) ==
    /\ pc[r] = "log_rules"
    /\ results' = results \cup {[run |-> r, rule |-> rule.kind] : rule \in failed[r]}
    /\ Goto(r, "decide")
    /\ UNCHANGED <<contract, schema, target, quarantine, evolved, runLog, local>>

\* Faulty variant of Action: rules about the whole batch are not escalated.
ActionAsConfigured(r) ==
    IF \A rule \in failed[r] : rule.severity = "warn" THEN "warn" ELSE contract.onFail

\* effective_action: warnings do not count, and what cannot be isolated row
\* by row is a failure where the contract says quarantine.
Action(r) ==
    IF \A rule \in failed[r] : rule.severity = "warn" THEN "warn"
    ELSE IF contract.onFail = "quarantine" /\ \E rule \in failed[r] : rule.severity = "abort" THEN "fail"
    ELSE contract.onFail

Decide(r) ==
    /\ pc[r] = "decide"
    /\ Goto(r, IF quality[r] \notin {"FAILED", "WARNED"} THEN "check"
               ELSE CASE Action(r) = "fail"       -> "raised"
                      [] Action(r) = "quarantine" -> "isolate"
                      [] Action(r) = "warn"       -> "check")
    /\ UNCHANGED <<contract, tables, local>>

\* Of valid_df are the rows whose condition is false, neither true nor NULL.
ValidRows(r) ==
    LET rules == {rule \in failed[r] : rule.severity = "quarantine"}
    IN  IF isolated[r] = {} THEN batch[r]
        ELSE {row \in batch[r] : AnyOf({Invalid(rule, row) : rule \in rules}) = "no"}

\* write_quarantine, and valid_df goes on as prepared_df.
Isolate(r) ==
    /\ pc[r] = "isolate"
    /\ quarantine' = quarantine \cup {[run |-> r, row |-> row] : row \in isolated[r]}
    /\ batch' = [batch EXCEPT ![r] = ValidRows(r)]
    /\ Goto(r, "check")
    /\ UNCHANGED <<contract, schema, target, results, evolved, runLog, source, columns, rowsRead, changes,
                   failed, isolated, quality>>
-----------------------------------------------------------------------------
(***************************************************************************)
(* The protection of a MERGE, the hook and the write.                      *)
(***************************************************************************)

UniqueKeyRule == \E rule \in contract.rules : rule.kind = "unique_key"

\* Faulty variant of ProvenUnique: the rule need not have passed.
ProvenByRule(r, afterHook) == ~afterHook /\ UniqueKeyRule

\* Faulty variant of ProvenUnique: the hook is forgotten.
ProvenBeforeHook(r, afterHook) == quality[r] = "PASSED" /\ UniqueKeyRule

\* The quality gate has already counted the duplicates.
ProvenUnique(r, afterHook) == ~afterHook /\ quality[r] = "PASSED" /\ UniqueKeyRule

\* _validate_merge_source_safety.
Refused(r, afterHook) ==
    /\ contract.mode = "merge"
    /\ \/ batch[r] # {} /\ \A row \in batch[r] : row.key = Null
       \/ ~ProvenUnique(r, afterHook) /\ Duplicated(batch[r]) # {}

CheckMerge(r) ==
    /\ pc[r] \in {"check", "check_again"}
    /\ Goto(r, IF Refused(r, pc[r] = "check_again") THEN "raised"
               ELSE IF pc[r] = "check" /\ contract.hook # "none" THEN "hook" ELSE "write")
    /\ UNCHANGED <<contract, tables, local>>

\* hooks.before_write may return any DataFrame.
BeforeWrite(r) ==
    /\ pc[r] = "hook"
    /\ \E rows \in IF contract.hook = "filters" THEN SUBSET batch[r]
                   ELSE {{[row EXCEPT !.key = k1] : row \in batch[r]}} :
          batch' = [batch EXCEPT ![r] = rows]
    /\ Goto(r, "check_again")
    /\ UNCHANGED <<contract, tables, source, columns, rowsRead, changes, failed, isolated, quality>>

\* execute_write_mode: the schema of the batch replaces that of the table
\* (overwriteSchema), extends it (mergeSchema), or has to be in it.
Write(r) ==
    /\ pc[r] = "write"
    /\ LET new == columns[r]
           fits == \A c \in DOMAIN schema \cap DOMAIN new : IsTypeWidening(new[c], schema[c])
       IN  CASE schema = NoTable \/ contract.mode = "overwrite" ->
                  schema' = new /\ Goto(r, "succeeded")
             [] schema # NoTable /\ contract.mode = "append" ->
                  IF fits THEN schema' = ExtendedBy(schema, new) /\ Goto(r, "succeeded")
                  ELSE Goto(r, "raised") /\ UNCHANGED schema
             [] schema # NoTable /\ contract.mode = "merge" ->
                  /\ Goto(r, IF fits /\ DOMAIN new \subseteq DOMAIN schema THEN "succeeded" ELSE "raised")
                  /\ UNCHANGED schema
    /\ target' = IF pc'[r] = "succeeded"
                 THEN target \cup {[run |-> r, row |-> row] : row \in batch[r]}
                 ELSE target
    /\ UNCHANGED <<contract, quarantine, results, evolved, runLog, local>>

\* _finalize_execution: the row of the run, with rows_read and rows_quarantined.
LogRun(r) ==
    /\ pc[r] \in Handlers
    /\ runLog' = runLog \cup {[run |-> r, status |-> IF pc[r] = "succeeded" THEN "SUCCESS" ELSE "FAILED",
                               read |-> Cardinality(rowsRead[r]), quarantined |-> Cardinality(isolated[r])]}
    /\ Goto(r, "done")
    /\ UNCHANGED <<contract, schema, target, quarantine, results, evolved, local>>

\* A statement on Spark raises.
StatementFails(r) ==
    /\ "statement" \in Faults
    /\ pc[r] \in Stages
    /\ Goto(r, "raised")
    /\ UNCHANGED <<contract, tables, local>>

Crash(r) ==
    /\ "crash" \in Faults
    /\ pc[r] \in Stages
    /\ Goto(r, "crashed")
    /\ UNCHANGED <<contract, tables, local>>

Advance(r) ==
    \/ Read(r) \/ Prepare(r) \/ CheckSchema(r) \/ AddColumns(r) \/ WidenColumn(r) \/ ReportChanges(r)
    \/ Evaluate(r) \/ LogRules(r) \/ Decide(r) \/ Isolate(r) \/ CheckMerge(r) \/ BeforeWrite(r)
    \/ Write(r) \/ LogRun(r)

Next == \E r \in Runs : Advance(r) \/ StatementFails(r) \/ Crash(r)

Spec == Init /\ [][Next]_vars
-----------------------------------------------------------------------------
(***************************************************************************)
(* Correctness.                                                            *)
(***************************************************************************)

WrittenBy(r) == {w.row : w \in {x \in target : x.run = r}}
SetAsideBy(r) == {q.row : q \in {x \in quarantine : x.run = r}}

\* What a rule says of a row, without the detour over SQL.
Rejects(rule, row) ==
    CASE rule.kind \in {"not_null", "max_null_ratio"} -> row.val = "null"
      [] rule.kind = "accepted_values"                -> row.val = "bad"
      [] rule.kind = "expression"                     -> row.val # "good"
      [] OTHER                                        -> FALSE

\* A run that succeeds accounts for every row it has read: it is in the
\* target or in the quarantine, not in both, and the quarantine holds exactly
\* the rows the failed rules reject, which the run log counts.  No rule of
\* severity abort has failed, unless the contract only warns.
SplitIsExact ==
    \A log \in runLog : log.status = "SUCCESS" /\ contract.hook = "none" =>
        LET r == log.run
            broken == {rule \in contract.rules :
                          rule.severity = "quarantine" /\ Fails(rule, rowsRead[r], DOMAIN columns[r])}
        IN  /\ WrittenBy(r) \cup SetAsideBy(r) = rowsRead[r]
            /\ WrittenBy(r) \cap SetAsideBy(r) = {}
            /\ SetAsideBy(r) = IF contract.onFail # "quarantine" THEN {}
                               ELSE {row \in rowsRead[r] : \E rule \in broken : Rejects(rule, row)}
            /\ contract.onFail = "quarantine" => log.quarantined = Cardinality(SetAsideBy(r))
            /\ contract.onFail # "warn" =>
                  \A rule \in contract.rules :
                      Fails(rule, rowsRead[r], DOMAIN columns[r]) => rule.severity # "abort"

\* No MERGE sees two rows of one key, or nothing but rows without a key, in
\* whatever way rules, quarantine, deduplication and hooks made the batch.
MergeInputIsSafe ==
    \A r \in Runs : pc[r] = "write" /\ contract.mode = "merge" =>
        /\ Duplicated(batch[r]) = {}
        /\ batch[r] # {} => \E row \in batch[r] : row.key # Null

\* Runs change the schema of an existing table only as the contract permits,
\* whatever other runs do to it between the check and the change: strict
\* never, the others by new columns and, with allow_type_widening, wider types.
EvolutionIsPermitted ==
    [][schema # NoTable /\ schema' # schema /\ contract.mode # "overwrite" =>
           /\ contract.policy # "strict"
           /\ DOMAIN schema \subseteq DOMAIN schema'
           /\ \A c \in DOMAIN schema : schema'[c] # schema[c] =>
                 contract.widening /\ TypeChangeSupported(schema[c], schema'[c])]_vars

\* docs/architecture.md: schema evolution is auditable, changes are recorded
\* in control tables.
EvolutionIsAudited ==
    (\A r \in Runs : pc[r] \in {"idle"} \cup Ended) =>
        \A r \in Runs : \A c \in changes[r].added \cap DOMAIN schema :
            \E e \in evolved : e.column = c

\* docs/architecture.md: automatic destructive changes are not performed.
NoColumnDropped == [][schema # NoTable => DOMAIN schema \subseteq DOMAIN schema']_vars
=============================================================================
