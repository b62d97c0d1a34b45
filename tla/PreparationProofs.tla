-------------------------- MODULE PreparationProofs --------------------------
(***************************************************************************)
(* Proofs about Preparation, for any contracts, rules, schemas and batches *)
(* and any number of runs.                                                 *)
(***************************************************************************)
EXTENDS Preparation, TLAPS

-----------------------------------------------------------------------------
(***************************************************************************)
(* Who does what.  Every action is a step of one run, changes the local    *)
(* variables of that run only, and adds rows of that run only to the       *)
(* tables.                                                                 *)
(***************************************************************************)

\* The local variables are functions of the run.
Locals ==
    /\ pc \in [Runs -> {"idle"} \cup Stages \cup Handlers \cup Ended]
    /\ quality \in [Runs -> {"NOT_CONFIGURED", "PASSED", "WARNED", "FAILED"}]
    /\ DOMAIN batch = Runs /\ DOMAIN columns = Runs /\ DOMAIN rowsRead = Runs
    /\ DOMAIN changes = Runs /\ DOMAIN failed = Runs /\ DOMAIN isolated = Runs

\* The tables name runs that have started.
Attributed ==
    /\ \A r \in Runs : pc[r] # "idle" => r \in contract.runs
    /\ \A w \in target \cup quarantine : w.run \in Runs /\ pc[w.run] # "idle"
    /\ \A log \in runLog : log.run \in Runs /\ pc[log.run] = "done"

\* What a run can see of itself.
Own(r) ==
    <<pc[r], batch[r], columns[r], rowsRead[r], changes[r], failed[r], isolated[r], quality[r],
      WrittenBy(r), SetAsideBy(r)>>

\* The part of every invariant below that no action has to be split for.
RunsInv == Locals /\ Attributed /\ contract \in Scenarios

\* What the validation of a contract guarantees.
LEMMA ContractFacts ==
  ASSUME contract \in Scenarios
  PROVE  /\ contract.mode \in {"append", "overwrite", "merge"}
         /\ contract.policy \in {"strict", "additive_only", "permissive"}
         /\ \A rule \in contract.rules : rule.kind \in RuleKinds /\ rule.severity \in {"warn", "quarantine", "abort"}
         /\ contract.onFail \in {"fail", "quarantine", "warn"}
         /\ contract.hook \in {"none", "filters", "normalises"}
         /\ contract.runs \subseteq Runs
         /\ \A t \in contract.tables : IsSchema(t)
  BY ScenariosAssumption DEF IsScenario

\* A step that adds rows of r to the target and to the quarantine.
LEMMA TablesStep ==
  ASSUME RunsInv, NEW r \in Runs, NEW W, NEW Q,
         target' = target \cup {[run |-> r, row |-> row] : row \in W},
         quarantine' = quarantine \cup {[run |-> r, row |-> row] : row \in Q}
  PROVE  /\ WrittenBy(r)' = WrittenBy(r) \cup W /\ SetAsideBy(r)' = SetAsideBy(r) \cup Q
         /\ \A q \in Runs \ {r} : WrittenBy(q)' = WrittenBy(q) /\ SetAsideBy(q)' = SetAsideBy(q)
  <1> DEFINE New(S) == {[run |-> r, row |-> row] : row \in S}
             Of(T, q) == {w.row : w \in {x \in T : x.run = q}}
  <1>1. ASSUME NEW T, NEW S PROVE Of(T \cup New(S), r) = Of(T, r) \cup S
    <2>1. ASSUME NEW row \in S PROVE row \in Of(T \cup New(S), r)
      <3>1. [run |-> r, row |-> row] \in New(S)
        OBVIOUS
      <3> QED BY <3>1
    <2>2. ASSUME NEW x \in T \cup New(S), x.run = r PROVE x.row \in Of(T, r) \cup S
      BY <2>2
    <2> QED BY <2>1, <2>2
  <1>2. ASSUME NEW T, NEW S, NEW q \in Runs \ {r} PROVE Of(T \cup New(S), q) = Of(T, q)
    OBVIOUS
  <1>3. /\ WrittenBy(r)' = Of(target \cup New(W), r) /\ SetAsideBy(r)' = Of(quarantine \cup New(Q), r)
        /\ WrittenBy(r) = Of(target, r) /\ SetAsideBy(r) = Of(quarantine, r)
    BY DEF WrittenBy, SetAsideBy
  <1>4. \A q \in Runs \ {r} :
           /\ WrittenBy(q)' = Of(target \cup New(W), q) /\ SetAsideBy(q)' = Of(quarantine \cup New(Q), q)
           /\ WrittenBy(q) = Of(target, q) /\ SetAsideBy(q) = Of(quarantine, q)
    BY DEF WrittenBy, SetAsideBy
  <1> HIDE DEF New, Of
  <1> QED BY <1>1, <1>2, <1>3, <1>4

\* A run changes nothing of another one.
LEMMA Steps ==
  ASSUME RunsInv, NEW r \in Runs, Advance(r) \/ StatementFails(r) \/ Crash(r)
  PROVE  /\ contract' = contract
         /\ \A q \in Runs \ {r} : Own(q)' = Own(q)
         /\ RunsInv'
  <1> USE DEF Goto
  <1>0. Locals /\ Attributed
    BY DEF RunsInv
  <1>a. contract' = contract
    BY DEF Advance, Read, Prepare, CheckSchema, AddColumns, WidenColumn, ReportChanges, Evaluate, LogRules,
           Decide, Isolate, CheckMerge, BeforeWrite, Write, LogRun, StatementFails, Crash
  <1>1. Locals' /\ \A q \in Runs \ {r} : /\ pc'[q] = pc[q] /\ batch'[q] = batch[q] /\ columns'[q] = columns[q]
                              /\ rowsRead'[q] = rowsRead[q] /\ changes'[q] = changes[q]
                              /\ failed'[q] = failed[q] /\ isolated'[q] = isolated[q] /\ quality'[q] = quality[q]
    <2> USE <1>0 DEF Locals
    <2>1. CASE Read(r) \/ Prepare(r)
      BY <2>1 DEF Read, Prepare, tables, Stages, Handlers
    <2>2. CASE CheckSchema(r)
      BY <2>2 DEF CheckSchema, tables, Stages, Handlers
    <2>3. CASE AddColumns(r) \/ ReportChanges(r) \/ LogRules(r) \/ CheckMerge(r)
      BY <2>3 DEF AddColumns, ReportChanges, LogRules, CheckMerge, local, Stages, Handlers
    <2>4. CASE WidenColumn(r)
      BY <2>4 DEF WidenColumn, local, Stages, Handlers
    <2>5. CASE Evaluate(r)
      BY <2>5 DEF Evaluate, Stages, Handlers
    <2>6. CASE Decide(r)
      <3>1. pc' = [pc EXCEPT ![r] = "check"] \/ pc' = [pc EXCEPT ![r] = "raised"] \/ pc' = [pc EXCEPT ![r] = "isolate"]
        BY <2>6, ContractFacts DEF Decide, Action, RunsInv
      <3> QED BY <2>6, <3>1 DEF Decide, local, Stages, Handlers
    <2>7. CASE Isolate(r) \/ BeforeWrite(r)
      BY <2>7 DEF Isolate, BeforeWrite, Stages, Handlers
    <2>8. CASE Write(r)
      <3>1. pc' = [pc EXCEPT ![r] = "succeeded"] \/ pc' = [pc EXCEPT ![r] = "raised"]
        BY <2>8, ContractFacts DEF Write, RunsInv
      <3> QED BY <2>8, <3>1 DEF Write, local, Handlers
    <2>9. CASE LogRun(r) \/ StatementFails(r) \/ Crash(r)
      BY <2>9 DEF LogRun, StatementFails, Crash, local, Ended, Handlers
    <2> QED BY <2>1, <2>2, <2>3, <2>4, <2>5, <2>6, <2>7, <2>8, <2>9 DEF Advance
  <1>2. \E W, Q : /\ target' = target \cup {[run |-> r, row |-> row] : row \in W}
                  /\ quarantine' = quarantine \cup {[run |-> r, row |-> row] : row \in Q}
    <2> DEFINE New(S) == {[run |-> r, row |-> row] : row \in S}
    <2>0. New({}) = {}
      OBVIOUS
    <2>1. CASE target' = target /\ quarantine' = quarantine
      BY <2>0, <2>1
    <2>2. CASE Write(r)
      <3>1. quarantine' = quarantine \cup New({}) /\ target' = target \cup New(IF pc'[r] = "succeeded" THEN batch[r] ELSE {})
        <4>1. CASE pc'[r] = "succeeded"
          BY <2>0, <2>2, <4>1 DEF Write
        <4>2. CASE pc'[r] # "succeeded"
          BY <2>0, <2>2, <4>2 DEF Write
        <4> QED BY <4>1, <4>2
      <3> QED BY <3>1
    <2>3. CASE Isolate(r)
      <3>1. target' = target \cup New({}) /\ quarantine' = quarantine \cup New(isolated[r])
        BY <2>0, <2>3 DEF Isolate
      <3> QED BY <3>1
    <2> QED BY <2>1, <2>2, <2>3
            DEF Advance, Read, Prepare, CheckSchema, AddColumns, WidenColumn, ReportChanges, Evaluate, LogRules,
                Decide, CheckMerge, BeforeWrite, LogRun, StatementFails, Crash, tables, local
  <1>3. PICK W, Q : /\ target' = target \cup {[run |-> r, row |-> row] : row \in W}
                    /\ quarantine' = quarantine \cup {[run |-> r, row |-> row] : row \in Q}
    BY <1>2
  <1>4. \A q \in Runs \ {r} : WrittenBy(q)' = WrittenBy(q) /\ SetAsideBy(q)' = SetAsideBy(q)
    BY <1>3, TablesStep
  <1>5. pc'[r] # "idle" /\ (pc[r] = "idle" => r \in contract.runs) /\ (pc[r] # "done")
    <2>1. pc[r] # "done" /\ (pc[r] = "idle" => r \in contract.runs)
      BY <1>0 DEF Advance, Read, Prepare, CheckSchema, AddColumns, WidenColumn, ReportChanges, Evaluate, LogRules,
                Decide, Isolate, CheckMerge, BeforeWrite, Write, LogRun, StatementFails, Crash, Stages, Handlers
    <2>2. pc'[r] # "idle"
      <3>1. CASE Decide(r)
        BY <1>0, <3>1, ContractFacts DEF Decide, Action, RunsInv, Locals
      <3>2. CASE Write(r)
        BY <1>0, <3>2, ContractFacts DEF Write, RunsInv, Locals
      <3>3. CASE Read(r) \/ Prepare(r) \/ CheckSchema(r) \/ AddColumns(r) \/ WidenColumn(r) \/ ReportChanges(r)
        BY <1>0, <3>3 DEF Read, Prepare, CheckSchema, AddColumns, WidenColumn, ReportChanges, Locals
      <3>4. CASE Evaluate(r) \/ LogRules(r) \/ Isolate(r) \/ CheckMerge(r) \/ BeforeWrite(r) \/ LogRun(r)
        BY <1>0, <3>4 DEF Evaluate, LogRules, Isolate, CheckMerge, BeforeWrite, LogRun, Locals
      <3>5. CASE StatementFails(r) \/ Crash(r)
        BY <1>0, <3>5 DEF StatementFails, Crash, Locals
      <3> QED BY <3>1, <3>2, <3>3, <3>4, <3>5 DEF Advance
    <2> QED BY <2>1, <2>2
  <1>6. \A log \in runLog' : log.run \in Runs /\ pc'[log.run] = "done"
    <2>1. CASE runLog' = runLog
      BY <1>0, <1>1, <1>5, <2>1 DEF Attributed
    <2>2. CASE LogRun(r)
      BY <1>0, <1>1, <1>5, <2>2 DEF Attributed, LogRun, Locals
    <2> QED BY <2>1, <2>2
            DEF Advance, Read, Prepare, CheckSchema, AddColumns, WidenColumn, ReportChanges, Evaluate, LogRules,
                Decide, Isolate, Write, CheckMerge, BeforeWrite, StatementFails, Crash, tables, local
  <1>7. Attributed'
    <2>1. \A w \in target' \cup quarantine' : w.run \in Runs /\ pc'[w.run] # "idle"
      BY <1>0, <1>1, <1>3, <1>5 DEF Attributed
    <2>2. \A q \in Runs : pc'[q] # "idle" => q \in contract.runs
      BY <1>0, <1>1, <1>5 DEF Attributed
    <2> QED BY <1>a, <1>6, <2>1, <2>2 DEF Attributed
  <1> QED BY <1>a, <1>1, <1>4, <1>7 DEF Own, RunsInv

LEMMA RunsInvInit == Init => RunsInv
  BY DEF Init, RunsInv, Locals, Attributed

LEMMA RunsInvNext == RunsInv /\ [Next]_vars => RunsInv'
  <1>1. RunsInv /\ Next => RunsInv'
    BY Steps DEF Next
  <1>2. RunsInv /\ UNCHANGED vars => RunsInv'
    BY DEF vars, tables, local, RunsInv, Locals, Attributed
  <1> QED BY <1>1, <1>2

-----------------------------------------------------------------------------
(***************************************************************************)
(* The input of a MERGE.                                                   *)
(*                                                                         *)
(* MergeInputIsSafe looks at a run about to write. Its batch was either    *)
(* checked by the last _validate_merge_source_safety, or not, because a    *)
(* unique_key rule had passed. MergeReady carries that rule from           *)
(* evaluate_quality to the check: where it passed, the whole quality gate  *)
(* did, so that nothing was isolated and the batch is the one the rule     *)
(* counted; and a hook, which may return anything, is always followed by a *)
(* check that does not trust it.                                           *)
(***************************************************************************)
\* What is known of the batch of r on its way to a MERGE.
MergeReady(r) ==
    /\ pc[r] \in {"log_rules", "decide", "check", "hook"} /\ quality[r] = "PASSED" /\ UniqueKeyRule =>
          Duplicated(batch[r]) = {}
    /\ pc[r] = "isolate" => quality[r] \in {"FAILED", "WARNED"}
    /\ pc[r] = "write" /\ contract.mode = "merge" =>
          Duplicated(batch[r]) = {} /\ (batch[r] # {} => \E row \in batch[r] : row.key # Null)

\* The inductive invariant.
MergeInv == RunsInv /\ \A r \in Runs : MergeReady(r)

\* Evaluate finds the duplicates, CheckMerge relies on that or looks again.
LEMMA MergeInvStep ==
  ASSUME MergeInv, NEW r \in Runs, Advance(r) \/ StatementFails(r) \/ Crash(r)
  PROVE  MergeReady(r)'
  <1> USE DEF Goto, MergeReady
  <1>0. RunsInv /\ Locals /\ MergeReady(r) /\ contract' = contract
    BY Steps DEF MergeInv, RunsInv
  <1>1. CASE \/ Read(r) \/ Prepare(r) \/ CheckSchema(r) \/ AddColumns(r) \/ WidenColumn(r) \/ ReportChanges(r)
             \/ BeforeWrite(r) \/ Write(r) \/ LogRun(r) \/ StatementFails(r) \/ Crash(r)
    <2>1. pc'[r] \notin {"log_rules", "decide", "check", "hook", "isolate", "write"}
      <3>1. CASE Write(r)
        BY <1>0, <3>1, ContractFacts DEF Write, Locals, RunsInv
      <3> QED BY <1>0, <1>1, <3>1
              DEF Read, Prepare, CheckSchema, AddColumns, WidenColumn, ReportChanges, BeforeWrite, LogRun,
                  StatementFails, Crash, Locals
    <2> QED BY <2>1
  <1>2. CASE Evaluate(r)
    <2>1. pc'[r] \in {"log_rules", "raised"} /\ batch' = batch
      BY <1>0, <1>2 DEF Evaluate, Locals
    <2>2. ASSUME pc'[r] = "log_rules", quality'[r] = "PASSED", UniqueKeyRule PROVE Duplicated(batch[r]) = {}
      <3>1. {rule \in contract.rules : Fails(rule, batch[r], DOMAIN columns[r])} = {}
        BY <1>0, <1>2, <2>2 DEF Evaluate, Locals
      <3>2. PICK rule \in contract.rules : rule.kind = "unique_key"
        BY <2>2 DEF UniqueKeyRule
      <3>3. ~ Fails(rule, batch[r], DOMAIN columns[r])
        BY <3>1
      <3> QED BY <3>2, <3>3 DEF Fails
    <2> QED BY <1>0, <2>1, <2>2 DEF UniqueKeyRule
  <1>3. CASE LogRules(r)
    BY <1>0, <1>3 DEF LogRules, local, Locals, UniqueKeyRule
  <1>4. CASE Decide(r)
    <2>1. UNCHANGED <<batch, quality>> /\ pc[r] = "decide"
          /\ pc'[r] \in {"check", "raised", "isolate"}
          /\ (pc'[r] = "isolate" => quality[r] \in {"FAILED", "WARNED"})
      BY <1>0, <1>4, ContractFacts DEF Decide, Action, local, Locals, RunsInv
    <2> QED BY <1>0, <2>1 DEF UniqueKeyRule
  <1>5. CASE Isolate(r)
    BY <1>0, <1>5 DEF Isolate, Locals
  <1>6. CASE CheckMerge(r)
    <2>1. /\ UNCHANGED <<batch, quality>>
          /\ pc'[r] \in {"raised", "hook", "write"}
          /\ (pc'[r] = "hook" => pc[r] = "check")
          /\ (pc'[r] = "write" => ~ Refused(r, pc[r] = "check_again"))
      BY <1>0, <1>6 DEF CheckMerge, local, Locals
    <2>2. ASSUME pc'[r] = "write", contract.mode = "merge"
          PROVE  Duplicated(batch[r]) = {} /\ (batch[r] # {} => \E row \in batch[r] : row.key # Null)
      <3>1. \/ Duplicated(batch[r]) = {}
            \/ pc[r] # "check_again" /\ quality[r] = "PASSED" /\ UniqueKeyRule
        BY <2>1, <2>2 DEF Refused, ProvenUnique
      <3>2. pc[r] \in {"check", "check_again"}
        BY <1>6 DEF CheckMerge
      <3>3. batch[r] # {} => \E row \in batch[r] : row.key # Null
        BY <2>1, <2>2 DEF Refused
      <3> QED BY <1>0, <3>1, <3>2, <3>3
    <2> QED BY <1>0, <2>1, <2>2 DEF UniqueKeyRule
  <1> QED BY <1>1, <1>2, <1>3, <1>4, <1>5, <1>6 DEF Advance

LEMMA MergeInvNext == MergeInv /\ [Next]_vars => MergeInv'
  <1>1. ASSUME MergeInv, NEW r \in Runs, Advance(r) \/ StatementFails(r) \/ Crash(r) PROVE MergeInv'
    <2>1. RunsInv' /\ contract' = contract /\ \A q \in Runs \ {r} : Own(q)' = Own(q)
      BY <1>1, Steps DEF MergeInv
    <2>2. ASSUME NEW q \in Runs \ {r} PROVE MergeReady(q)'
      BY <1>1, <2>1 DEF Own, MergeInv, MergeReady, UniqueKeyRule
    <2> QED BY <1>1, <2>1, <2>2, MergeInvStep DEF MergeInv
  <1>2. MergeInv /\ UNCHANGED vars => MergeInv'
    <2> SUFFICES ASSUME MergeInv, UNCHANGED vars PROVE MergeInv'
      OBVIOUS
    <2>1. RunsInv' /\ UNCHANGED <<pc, contract, batch, quality>>
      BY RunsInvNext DEF MergeInv, vars, local
    <2> QED BY <2>1 DEF MergeInv, MergeReady, UniqueKeyRule
  <1> QED BY <1>1, <1>2 DEF Next

(***************************************************************************)
(* No MERGE is given two rows of one key, or nothing but rows without a    *)
(* key, whatever rules, deduplication, quarantine and hooks made of the    *)
(* batch (_validate_merge_source_safety, skipped where a unique_key rule   *)
(* has passed).                                                            *)
(***************************************************************************)
THEOREM MergesAreSafe == Spec => []MergeInputIsSafe
  <1>1. Init => MergeInv
    BY RunsInvInit DEF Init, MergeInv, MergeReady
  <1>2. MergeInv => MergeInputIsSafe
    BY DEF MergeInv, MergeReady, MergeInputIsSafe
  <1> QED BY <1>1, <1>2, MergeInvNext, PTL DEF Spec

-----------------------------------------------------------------------------
(***************************************************************************)
(* The split.                                                              *)
(*                                                                         *)
(* SplitIsExact looks at a run when it is logged. Accounts follows its     *)
(* rows there: until evaluate_quality the batch is what was read (Rows),   *)
(* then the failed rules are those that are broken by what was read and    *)
(* the isolated rows are those they reject (Evaluated), quarantine and     *)
(* batch share out what was read once the gate is behind it (SetAside,     *)
(* Whole), and the target gets the batch at the write and not before       *)
(* (Written). That nothing falls between valid_df and quarantined_df is    *)
(* ConditionsDecide: a condition of a rule is never NULL, so that "not     *)
(* yes" is "no".                                                           *)
(***************************************************************************)
\* The rules that the rows r has read do not meet.
Broken(r) == {rule \in contract.rules : Fails(rule, rowsRead[r], DOMAIN columns[r])}

\* The rows that a broken rule can isolate.
Bad(r) == {row \in rowsRead[r] :
              \E rule \in Broken(r) : rule.severity = "quarantine" /\ Rejects(rule, row)}

NoAbort(r) == \A rule \in Broken(r) : rule.severity # "abort"

\* The stages before, after and beyond the gate.
ToEvaluate == {"schema", "add", "widen", "report", "evaluate"}
Judged == {"log_rules", "decide", "isolate", "check", "hook", "check_again", "write", "succeeded"}
Gated == {"check", "hook", "check_again", "write", "succeeded"}

\* The batch of r up to the gate.
Rows(r) ==
    /\ isolated[r] \subseteq rowsRead[r]
    /\ pc[r] \in {"idle", "prepare"} => rowsRead[r] = {}
    /\ pc[r] \in ToEvaluate \cup {"log_rules", "decide", "isolate"} => batch[r] = rowsRead[r]
    /\ pc[r] \in {"idle", "prepare"} \cup ToEvaluate => isolated[r] = {}

\* What evaluate_quality has found, and what has been decided.
Evaluated(r) ==
    /\ pc[r] \in Judged => failed[r] = Broken(r) /\ isolated[r] = Bad(r)
    /\ pc[r] \in {"decide", "log_rules"} =>
          (quality[r] \in {"NOT_CONFIGURED", "PASSED"} => failed[r] = {})
    /\ pc[r] = "isolate" => contract.onFail = "quarantine" /\ NoAbort(r)
    /\ pc[r] \in Gated => (contract.onFail # "warn" => NoAbort(r))

\* The rows of r in the quarantine.
SetAside(r) ==
    /\ pc[r] \notin Gated \cup Ended \cup {"raised"} => SetAsideBy(r) = {}
    /\ pc[r] \in Gated => SetAsideBy(r) = IF contract.onFail = "quarantine" THEN isolated[r] ELSE {}

\* The rows of r in the target.
Written(r) ==
    /\ pc[r] \notin {"succeeded", "done"} => WrittenBy(r) = {}
    /\ pc[r] = "succeeded" => WrittenBy(r) = batch[r]

\* A hook runs where the contract has one.
Hooked(r) == pc[r] \in {"hook", "check_again"} => contract.hook # "none"

\* Without a hook, batch and quarantine are what was read.
Whole(r) ==
    pc[r] \in Gated /\ contract.hook = "none" =>
        batch[r] \cup SetAsideBy(r) = rowsRead[r] /\ batch[r] \cap SetAsideBy(r) = {}

Accounts(r) == Rows(r) /\ Evaluated(r) /\ SetAside(r) /\ Written(r) /\ Hooked(r) /\ Whole(r)

\* The inductive invariant.
SplitInv == RunsInv /\ SplitIsExact /\ \A r \in Runs : Accounts(r)

LEMMA SplitInvInit == Init => SplitInv
  BY RunsInvInit
     DEF Init, SplitInv, SplitIsExact, Accounts, Rows, Evaluated, SetAside, Written, Hooked, Whole,
         ToEvaluate, Judged, Gated, Ended, WrittenBy, SetAsideBy

\* What the conditions of SQL come to.
LEMMA ConditionsDecide ==
  ASSUME NEW rules, \A rule \in rules : rule.kind \in RuleKinds, NEW row
  PROVE  /\ AnyOf({Invalid(rule, row) : rule \in rules}) = "yes" <=> \E rule \in rules : Rejects(rule, row)
         /\ AnyOf({Invalid(rule, row) : rule \in rules}) = "no" <=> \A rule \in rules : ~ Rejects(rule, row)
  <1>1. ASSUME NEW rule \in rules PROVE Invalid(rule, row) = IF Rejects(rule, row) THEN "yes" ELSE "no"
    BY DEF Invalid, Rejects, RuleKinds
  <1> DEFINE C == {Invalid(rule, row) : rule \in rules}
  <1>2. "null" \notin C
    BY <1>1
  <1>3. "yes" \in C <=> \E rule \in rules : Rejects(rule, row)
    BY <1>1
  <1> HIDE DEF C
  <1>4. (AnyOf(C) = "yes" <=> "yes" \in C) /\ (AnyOf(C) = "no" <=> "yes" \notin C)
    BY <1>2 DEF AnyOf
  <1> QED BY <1>3, <1>4 DEF C

\* The run that evaluates its rules finds what is broken, and whom to isolate.
LEMMA EvaluateIsExact ==
  ASSUME RunsInv, NEW r \in Runs, batch[r] = rowsRead[r], Evaluate(r), pc'[r] # "raised"
  PROVE  /\ failed'[r] = Broken(r) /\ isolated'[r] = Bad(r)
         /\ quality'[r] \in {"NOT_CONFIGURED", "PASSED"} => Broken(r) = {}
  <1> DEFINE hit == {rule \in contract.rules : Fails(rule, batch[r], DOMAIN columns[r])}
             open == {x \in hit : x.severity = "quarantine"}
             condition(row) == AnyOf({Invalid(rule, row) : rule \in open})
  <1>1. /\ failed' = [failed EXCEPT ![r] = hit]
        /\ isolated' = [isolated EXCEPT ![r] = {row \in batch[r] : condition(row) = "yes"}]
        /\ quality' = [quality EXCEPT ![r] =
                          IF contract.rules = {} THEN "NOT_CONFIGURED" ELSE IF hit = {} THEN "PASSED"
                          ELSE IF \A rule \in hit : rule.severity = "warn" THEN "WARNED" ELSE "FAILED"]
    <2>1. pc \in [Runs -> {"idle"} \cup Stages \cup Handlers \cup Ended]
      BY DEF RunsInv, Locals
    <2> QED BY <2>1 DEF Evaluate, Goto
  <1>2. hit = Broken(r)
    BY DEF Broken
  <1>3. \A rule \in open : rule.kind \in RuleKinds
    BY ContractFacts DEF RunsInv
  <1>4. \A row \in batch[r] : condition(row) = "yes" <=> \E rule \in open : Rejects(rule, row)
    <2> HIDE DEF open
    <2> QED BY <1>3, ConditionsDecide
  <1>5. {row \in batch[r] : condition(row) = "yes"} = Bad(r)
    BY <1>2, <1>4 DEF Bad
  <1>6. contract.rules = {} => hit = {}
    OBVIOUS
  <1> HIDE DEF hit, condition
  <1> QED BY <1>1, <1>2, <1>5, <1>6 DEF RunsInv, Locals

\* valid_df is what is left when the isolated rows are taken away.
LEMMA SplitIsComplete ==
  ASSUME RunsInv, NEW r \in Runs, batch[r] = rowsRead[r], failed[r] = Broken(r), isolated[r] = Bad(r)
  PROVE  ValidRows(r) = rowsRead[r] \ isolated[r]
  <1> DEFINE rules == {rule \in failed[r] : rule.severity = "quarantine"}
  <1>1. \A rule \in rules : rule.kind \in RuleKinds
    BY ContractFacts DEF RunsInv, Broken
  <1>2. \A row \in batch[r] : AnyOf({Invalid(rule, row) : rule \in rules}) = "no" <=> \A rule \in rules : ~ Rejects(rule, row)
    <2> HIDE DEF rules
    <2> QED BY <1>1, ConditionsDecide
  <1>3. \A row \in batch[r] : row \in Bad(r) <=> \E rule \in rules : Rejects(rule, row)
    BY DEF Bad
  <1>4. {row \in batch[r] : AnyOf({Invalid(rule, row) : rule \in rules}) = "no"} = rowsRead[r] \ Bad(r)
    <2> HIDE DEF rules
    <2> QED BY <1>2, <1>3
  <1> QED BY <1>4 DEF ValidRows

\* What is in the tables is left alone by every action but three.
LEMMA TablesKept ==
  ASSUME RunsInv, NEW r \in Runs, UNCHANGED <<target, quarantine>>
  PROVE  WrittenBy(r)' = WrittenBy(r) /\ SetAsideBy(r)' = SetAsideBy(r)
  BY DEF WrittenBy, SetAsideBy

\* Stages that judge nothing, move no row and do not enter another phase.
LEMMA SamePhase ==
  ASSUME SplitInv, NEW r \in Runs, contract' = contract, UNCHANGED <<target, quarantine>>,
         rowsRead'[r] = rowsRead[r], batch'[r] = batch[r], columns'[r] = columns[r], failed'[r] = failed[r],
         isolated'[r] = isolated[r], quality'[r] = quality[r],
         \/ pc[r] \in ToEvaluate /\ pc'[r] \in ToEvaluate
         \/ pc[r] = "log_rules" /\ pc'[r] = "decide"
         \/ pc[r] \in {"check", "check_again"} /\ pc'[r] \in {"hook", "write"} /\ (pc'[r] = "hook" => contract.hook # "none")
         \/ pc[r] \in Stages /\ pc'[r] \in {"raised", "crashed"}
         \/ pc[r] \in Handlers /\ pc'[r] = "done"
  PROVE  Accounts(r)'
  <1>1. Accounts(r) /\ WrittenBy(r)' = WrittenBy(r) /\ SetAsideBy(r)' = SetAsideBy(r)
    BY TablesKept DEF SplitInv
  <1>2. Broken(r)' = Broken(r) /\ Bad(r)' = Bad(r)
    BY DEF Broken, Bad
  <1>3. Rows(r)'
    BY <1>1 DEF Accounts, Rows, ToEvaluate, Gated, Handlers
  <1>4. Evaluated(r)'
    BY <1>1, <1>2 DEF Accounts, Evaluated, NoAbort, ToEvaluate, Judged, Gated, Handlers
  <1>5. SetAside(r)'
    BY <1>1 DEF Accounts, SetAside, ToEvaluate, Gated, Stages, Handlers, Ended
  <1>6. Written(r)'
    BY <1>1 DEF Accounts, Written, ToEvaluate, Gated, Stages, Handlers, Ended
  <1>7. Hooked(r)' /\ Whole(r)'
    BY <1>1 DEF Accounts, Hooked, Whole, ToEvaluate, Gated, Stages, Handlers, Ended
  <1> QED BY <1>3, <1>4, <1>5, <1>6, <1>7 DEF Accounts

\* One step per action that changes what is known of the rows of r.
LEMMA AccountsStep ==
  ASSUME SplitInv, NEW r \in Runs, Advance(r) \/ StatementFails(r) \/ Crash(r)
  PROVE  Accounts(r)'
  <1> USE DEF Goto
  <1>0. RunsInv /\ Locals /\ Accounts(r) /\ contract' = contract
    BY Steps DEF SplitInv, RunsInv
  <1>1. CASE \/ Read(r) \/ CheckMerge(r) \/ CheckSchema(r) \/ AddColumns(r) \/ WidenColumn(r) \/ ReportChanges(r)
             \/ LogRules(r) \/ LogRun(r) \/ StatementFails(r) \/ Crash(r)
    <2>1. /\ UNCHANGED <<target, quarantine>>
          /\ rowsRead'[r] = rowsRead[r] /\ batch'[r] = batch[r] /\ columns'[r] = columns[r] /\ failed'[r] = failed[r]
          /\ isolated'[r] = isolated[r] /\ quality'[r] = quality[r]
      BY <1>1 DEF Read, CheckMerge, CheckSchema, AddColumns, WidenColumn, ReportChanges, LogRules, LogRun,
                  StatementFails, Crash, tables, local
    <2>2. CASE Read(r)
      BY <1>0, <2>1, <2>2, TablesKept
         DEF Read, Locals, Accounts, Rows, Evaluated, SetAside, Written, Hooked, Whole, ToEvaluate, Judged, Gated, Ended
    <2>5. CASE CheckMerge(r)
      <3>1. \/ pc'[r] \in {"hook", "write"} /\ (pc'[r] = "hook" => contract.hook # "none")
            \/ pc'[r] = "raised"
        BY <1>0, <2>5 DEF CheckMerge, Locals
      <3> QED BY <1>0, <2>1, <2>5, <3>1, SamePhase DEF CheckMerge, Stages
    <2>3. CASE CheckSchema(r) \/ AddColumns(r) \/ WidenColumn(r) \/ ReportChanges(r)
               \/ LogRules(r)
      BY <1>0, <2>1, <2>3, SamePhase
         DEF CheckSchema, AddColumns, WidenColumn, ReportChanges, LogRules, Locals, ToEvaluate, Stages
    <2>4. CASE LogRun(r) \/ StatementFails(r) \/ Crash(r)
      BY <1>0, <2>1, <2>4, SamePhase DEF LogRun, StatementFails, Crash, Locals, Stages
    <2> QED BY <1>1, <2>2, <2>3, <2>4, <2>5
  <1>2. CASE Prepare(r)
    <2>1. UNCHANGED <<target, quarantine, isolated>> /\ pc[r] = "prepare"
      BY <1>2 DEF Prepare, tables
    <2>2. \/ pc'[r] = "schema" /\ batch'[r] = rowsRead'[r]
          \/ pc'[r] = "raised" /\ rowsRead'[r] = rowsRead[r]
      BY <1>0, <1>2 DEF Prepare, Locals, RunsInv
    <2>3. isolated'[r] = {}
      BY <1>0, <2>1 DEF Accounts, Rows
    <2> QED BY <1>0, <2>1, <2>2, <2>3, TablesKept
            DEF Accounts, Rows, Evaluated, SetAside, Written, Hooked, Whole, ToEvaluate, Judged, Gated, Ended
  <1>3. CASE Evaluate(r)
    <2>1. UNCHANGED <<target, quarantine, batch, columns, rowsRead>> /\ pc[r] = "evaluate"
      BY <1>3 DEF Evaluate, tables
    <2>2. pc'[r] = "log_rules" \/ (pc'[r] = "raised" /\ isolated'[r] = isolated[r])
      BY <1>0, <1>3 DEF Evaluate, Locals
    <2>3. batch[r] = rowsRead[r]
      BY <1>0, <2>1 DEF Accounts, Rows, ToEvaluate
    <2>4. Broken(r)' = Broken(r) /\ Bad(r)' = Bad(r)
      BY <1>0, <2>1 DEF Broken, Bad
    <2>5. CASE pc'[r] = "raised"
      BY <1>0, <2>1, <2>2, <2>5, TablesKept
         DEF Accounts, Rows, Evaluated, SetAside, Written, Hooked, Whole, ToEvaluate, Judged, Gated, Ended
    <2>6. CASE pc'[r] = "log_rules"
      <3>1. /\ failed'[r] = Broken(r) /\ isolated'[r] = Bad(r)
            /\ quality'[r] \in {"NOT_CONFIGURED", "PASSED"} => Broken(r) = {}
        BY <1>0, <1>3, <2>3, <2>6, EvaluateIsExact
      <3>2. Bad(r) \subseteq rowsRead[r]
        BY DEF Bad
      <3>3. Rows(r)' /\ Evaluated(r)'
        BY <2>1, <2>3, <2>4, <2>6, <3>1, <3>2 DEF Rows, Evaluated, ToEvaluate, Judged, Gated
      <3> QED BY <1>0, <2>1, <2>6, <3>3, TablesKept
              DEF Accounts, SetAside, Written, Hooked, Whole, ToEvaluate, Gated, Ended
    <2> QED BY <2>2, <2>5, <2>6
  <1>4. CASE Decide(r)
    <2>1. UNCHANGED <<target, quarantine, local>> /\ pc[r] = "decide"
      BY <1>4 DEF Decide, tables
    <2>2. Broken(r)' = Broken(r) /\ Bad(r)' = Bad(r) /\ NoAbort(r)' = NoAbort(r)
      BY <1>0, <2>1 DEF Broken, Bad, NoAbort, local
    <2>3. /\ failed[r] = Broken(r) /\ isolated[r] = Bad(r) /\ batch[r] = rowsRead[r]
          /\ quality[r] \in {"NOT_CONFIGURED", "PASSED"} => failed[r] = {}
          /\ WrittenBy(r) = {} /\ SetAsideBy(r) = {} /\ isolated[r] \subseteq rowsRead[r]
      BY <1>0, <2>1 DEF Accounts, Rows, Evaluated, SetAside, Written, Judged, Gated, Ended
    <2>4. /\ pc'[r] \in {"raised", "isolate", "check"}
          /\ pc'[r] = "isolate" => contract.onFail = "quarantine" /\ NoAbort(r)
          /\ pc'[r] = "check" =>
                \/ failed[r] = {}
                \/ \A rule \in failed[r] : rule.severity = "warn"
                \/ contract.onFail = "warn"
      BY <1>0, <1>4, <2>3, ContractFacts DEF Decide, Action, NoAbort, Locals, RunsInv
    <2>5. pc'[r] = "check" => (contract.onFail # "warn" => NoAbort(r) /\ isolated[r] = {})
      BY <2>3, <2>4 DEF NoAbort, Bad
    <2>6. UNCHANGED <<rowsRead, isolated, failed, batch, quality, columns>>
      BY <2>1 DEF local
    <2>7. WrittenBy(r)' = {} /\ SetAsideBy(r)' = {}
      BY <1>0, <2>1, <2>3, TablesKept
    <2>8. Rows(r)'
      BY <2>3, <2>4, <2>6 DEF Rows, ToEvaluate
    <2>9. Evaluated(r)'
      BY <1>0, <2>2, <2>3, <2>4, <2>5, <2>6 DEF Evaluated, Judged, Gated
    <2>10. SetAside(r)' /\ Written(r)' /\ Hooked(r)' /\ Whole(r)'
      BY <1>0, <2>3, <2>4, <2>5, <2>6, <2>7 DEF SetAside, Written, Hooked, Whole, Gated
    <2> QED BY <2>8, <2>9, <2>10 DEF Accounts
  <1>5. CASE Isolate(r)
    <2>1. /\ UNCHANGED <<target, rowsRead, isolated, failed, quality, columns>> /\ pc[r] = "isolate" /\ pc'[r] = "check"
          /\ batch'[r] = ValidRows(r)
      BY <1>0, <1>5 DEF Isolate, Locals
    <2>2. Broken(r)' = Broken(r) /\ Bad(r)' = Bad(r) /\ NoAbort(r)' = NoAbort(r)
      BY <1>0, <2>1 DEF Broken, Bad, NoAbort
    <2>3. /\ failed[r] = Broken(r) /\ isolated[r] = Bad(r) /\ batch[r] = rowsRead[r]
          /\ contract.onFail = "quarantine" /\ NoAbort(r)
          /\ WrittenBy(r) = {} /\ SetAsideBy(r) = {} /\ isolated[r] \subseteq rowsRead[r]
      BY <1>0, <2>1 DEF Accounts, Rows, Evaluated, SetAside, Written, Judged, Gated, Ended
    <2>4. batch'[r] = rowsRead[r] \ isolated[r]
      BY <1>0, <2>1, <2>3, SplitIsComplete
    <2>5. WrittenBy(r)' = {} /\ SetAsideBy(r)' = isolated[r]
      <3>1. /\ target' = target \cup {[run |-> r, row |-> row] : row \in {}}
            /\ quarantine' = quarantine \cup {[run |-> r, row |-> row] : row \in isolated[r]}
        BY <1>5 DEF Isolate
      <3>2. PICK W, Q : /\ W = {} /\ Q = isolated[r]
                        /\ target' = target \cup {[run |-> r, row |-> row] : row \in W}
                        /\ quarantine' = quarantine \cup {[run |-> r, row |-> row] : row \in Q}
        BY <3>1
      <3>3. WrittenBy(r)' = WrittenBy(r) \cup W /\ SetAsideBy(r)' = SetAsideBy(r) \cup Q
        BY <1>0, <3>2, TablesStep
      <3> QED BY <2>3, <3>2, <3>3
    <2> QED BY <1>0, <2>1, <2>2, <2>3, <2>4, <2>5
            DEF Accounts, Rows, Evaluated, SetAside, Written, Hooked, Whole, ToEvaluate, Judged, Gated
  <1>6. CASE BeforeWrite(r)
    <2>1. /\ UNCHANGED <<target, quarantine, rowsRead, isolated, failed, quality, columns>>
          /\ pc[r] = "hook" /\ pc'[r] = "check_again"
      BY <1>0, <1>6 DEF BeforeWrite, Locals, tables
    <2>2. contract.hook # "none"
      BY <1>0, <2>1 DEF Accounts, Hooked
    <2>3. Broken(r)' = Broken(r) /\ Bad(r)' = Bad(r) /\ NoAbort(r)' = NoAbort(r)
      BY <1>0, <2>1 DEF Broken, Bad, NoAbort
    <2> QED BY <1>0, <2>1, <2>2, <2>3, TablesKept
            DEF Accounts, Rows, Evaluated, SetAside, Written, Hooked, Whole, ToEvaluate, Judged, Gated, Ended
  <1>7. CASE Write(r)
    <2>1. /\ UNCHANGED <<quarantine, rowsRead, isolated, failed, quality, columns, batch>>
          /\ pc[r] = "write" /\ pc'[r] \in {"succeeded", "raised"}
      BY <1>0, <1>7, ContractFacts DEF Write, Locals, RunsInv, local
    <2>2. Broken(r)' = Broken(r) /\ Bad(r)' = Bad(r) /\ NoAbort(r)' = NoAbort(r)
      BY <1>0, <2>1 DEF Broken, Bad, NoAbort
    <2>3. SetAsideBy(r)' = SetAsideBy(r) /\ WrittenBy(r)' = IF pc'[r] = "succeeded" THEN batch[r] ELSE {}
      <3>0. WrittenBy(r) = {}
        BY <1>0, <2>1 DEF Accounts, Written
      <3>1. CASE pc'[r] = "succeeded"
        <4>1. /\ target' = target \cup {[run |-> r, row |-> row] : row \in batch[r]}
              /\ quarantine' = quarantine \cup {[run |-> r, row |-> row] : row \in {}}
          BY <1>7, <3>1 DEF Write
        <4>2. PICK W, Q : /\ W = batch[r] /\ Q = {}
                          /\ target' = target \cup {[run |-> r, row |-> row] : row \in W}
                          /\ quarantine' = quarantine \cup {[run |-> r, row |-> row] : row \in Q}
          BY <4>1
        <4>3. WrittenBy(r)' = WrittenBy(r) \cup W /\ SetAsideBy(r)' = SetAsideBy(r) \cup Q
          BY <1>0, <4>2, TablesStep
        <4> QED BY <3>0, <3>1, <4>2, <4>3
      <3>2. CASE pc'[r] # "succeeded"
        BY <1>0, <1>7, <3>0, <3>2, TablesKept DEF Write
      <3> QED BY <3>1, <3>2
    <2> QED BY <1>0, <2>1, <2>2, <2>3
            DEF Accounts, Rows, Evaluated, SetAside, Written, Hooked, Whole, ToEvaluate, Judged, Gated, Ended
  <1> QED BY <1>1, <1>2, <1>3, <1>4, <1>5, <1>6, <1>7 DEF Advance

\* SplitIsExact, of one entry of the run log.
Exact(log) ==
    LET r == log.run
    IN  /\ WrittenBy(r) \cup SetAsideBy(r) = rowsRead[r] /\ WrittenBy(r) \cap SetAsideBy(r) = {}
        /\ SetAsideBy(r) = IF contract.onFail = "quarantine" THEN Bad(r) ELSE {}
        /\ contract.onFail = "quarantine" => log.quarantined = Cardinality(SetAsideBy(r))
        /\ contract.onFail # "warn" => NoAbort(r)

\* The names above for what the property spells out.
LEMMA SplitPerLog ==
  SplitIsExact <=> \A log \in runLog : log.status = "SUCCESS" /\ contract.hook = "none" => Exact(log)
  <1>1. ASSUME NEW r PROVE Bad(r) = {row \in rowsRead[r] :
              \E rule \in {rule \in contract.rules :
                          rule.severity = "quarantine" /\ Fails(rule, rowsRead[r], DOMAIN columns[r])} :
                 Rejects(rule, row)}
    BY DEF Bad, Broken
  <1>2. ASSUME NEW r PROVE NoAbort(r) <=> \A rule \in contract.rules :
                      Fails(rule, rowsRead[r], DOMAIN columns[r]) => rule.severity # "abort"
    BY DEF NoAbort, Broken
  <1>3. ASSUME NEW log
        PROVE  Exact(log) <=>
            LET r == log.run
                broken == {rule \in contract.rules :
                              rule.severity = "quarantine" /\ Fails(rule, rowsRead[r], DOMAIN columns[r])}
            IN  /\ WrittenBy(r) \cup SetAsideBy(r) = rowsRead[r]
                /\ WrittenBy(r) \cap SetAsideBy(r) = {}
                /\ SetAsideBy(r) = IF contract.onFail # "quarantine" THEN {}
                                   ELSE {row \in rowsRead[r] : \E rule \in broken : Rejects(rule, row)}
                /\ contract.onFail = "quarantine" => log.quarantined = Cardinality(SetAsideBy(r))
                /\ contract.onFail # "warn" =>
                      \A rule \in contract.rules :
                          Fails(rule, rowsRead[r], DOMAIN columns[r]) => rule.severity # "abort"
    BY <1>1, <1>2 DEF Exact
  <1> QED BY <1>3 DEF SplitIsExact

LEMMA SplitInvNext == SplitInv /\ [Next]_vars => SplitInv'
  <1>1. ASSUME SplitInv, NEW r \in Runs, Advance(r) \/ StatementFails(r) \/ Crash(r) PROVE SplitInv'
    <2>1. RunsInv /\ RunsInv' /\ contract' = contract /\ \A q \in Runs \ {r} : Own(q)' = Own(q)
      BY <1>1, Steps DEF SplitInv
    <2>2. ASSUME NEW q \in Runs \ {r}
          PROVE  /\ Accounts(q)' /\ Bad(q)' = Bad(q) /\ NoAbort(q)' = NoAbort(q)
                 /\ WrittenBy(q)' = WrittenBy(q) /\ SetAsideBy(q)' = SetAsideBy(q) /\ rowsRead'[q] = rowsRead[q]
      <3>1. Own(q)' = Own(q) /\ Accounts(q)
        BY <1>1, <2>1 DEF SplitInv
      <3>2. Broken(q)' = Broken(q) /\ Bad(q)' = Bad(q) /\ NoAbort(q)' = NoAbort(q)
        BY <2>1, <3>1 DEF Own, Broken, Bad, NoAbort
      <3> QED BY <2>1, <3>1, <3>2
              DEF Own, Accounts, Rows, Evaluated, SetAside, Written, Hooked, Whole
    <2>3. Accounts(r)'
      BY <1>1, AccountsStep
    <2>4. pc[r] # "done"
      BY <1>1 DEF Advance, Read, Prepare, CheckSchema, AddColumns, WidenColumn, ReportChanges, Evaluate, LogRules,
                Decide, Isolate, CheckMerge, BeforeWrite, Write, LogRun, StatementFails, Crash, Stages, Handlers
    <2>5. ASSUME NEW log \in runLog', log.status = "SUCCESS", contract.hook = "none" PROVE Exact(log)'
      <3>1. CASE log \in runLog
        <4>1. log.run \in Runs \ {r}
          BY <2>1, <2>4, <3>1 DEF RunsInv, Attributed
        <4>2. Exact(log)
          BY <1>1, <2>5, <3>1, SplitPerLog DEF SplitInv
        <4> QED BY <2>1, <2>2, <4>1, <4>2 DEF Exact
      <3>2. CASE log \notin runLog
        <4>1. LogRun(r)
          BY <1>1, <2>5, <3>2
             DEF Advance, Read, Prepare, CheckSchema, AddColumns, WidenColumn, ReportChanges, Evaluate, LogRules,
                Decide, Isolate, CheckMerge, BeforeWrite, Write, StatementFails, Crash, tables, local
        <4>2. /\ log.run = r /\ pc[r] = "succeeded" /\ log.quarantined = Cardinality(isolated[r])
              /\ UNCHANGED <<target, quarantine, rowsRead, isolated, columns>>
          BY <2>5, <3>2, <4>1 DEF LogRun, local
        <4>3. /\ WrittenBy(r)' = WrittenBy(r) /\ SetAsideBy(r)' = SetAsideBy(r)
              /\ Bad(r)' = Bad(r) /\ NoAbort(r)' = NoAbort(r)
          BY <2>1, <4>2, TablesKept DEF Bad, NoAbort, Broken
        <4>4. Accounts(r)
          BY <1>1 DEF SplitInv
        <4>5. /\ WrittenBy(r) = batch[r] /\ isolated[r] = Bad(r)
              /\ SetAsideBy(r) = (IF contract.onFail = "quarantine" THEN isolated[r] ELSE {})
              /\ batch[r] \cup SetAsideBy(r) = rowsRead[r] /\ batch[r] \cap SetAsideBy(r) = {}
              /\ contract.onFail # "warn" => NoAbort(r)
          BY <2>5, <4>2, <4>4 DEF Accounts, Evaluated, SetAside, Written, Whole, Judged, Gated
        <4> QED BY <2>1, <4>2, <4>3, <4>5 DEF Exact
      <3> QED BY <3>1, <3>2
    <2>6. SplitIsExact'
      <3>1. (\A log \in runLog : log.status = "SUCCESS" /\ contract.hook = "none" => Exact(log))'
        BY <2>1, <2>5
      <3>2. (SplitIsExact <=> \A log \in runLog : log.status = "SUCCESS" /\ contract.hook = "none" => Exact(log))'
        BY SplitPerLog, PTL
      <3> QED BY <3>1, <3>2
    <2> QED BY <2>1, <2>2, <2>3, <2>6 DEF SplitInv
  <1>2. SplitInv /\ UNCHANGED vars => SplitInv'
    <2> SUFFICES ASSUME SplitInv, UNCHANGED vars PROVE SplitInv'
      OBVIOUS
    <2>1. RunsInv' /\ UNCHANGED <<contract, pc, schema, target, quarantine, runLog, batch, columns, rowsRead, failed, isolated, quality>>
      BY RunsInvNext DEF SplitInv, vars, local, tables
    <2>2. \A r \in Runs : Accounts(r)'
      BY <2>1 DEF SplitInv, Accounts, Rows, Evaluated, SetAside, Written, Hooked, Whole, Broken, Bad, NoAbort,
                  WrittenBy, SetAsideBy
    <2>3. SplitIsExact'
      BY <2>1 DEF SplitInv, SplitIsExact, WrittenBy, SetAsideBy
    <2> QED BY <2>1, <2>2, <2>3 DEF SplitInv
  <1> QED BY <1>1, <1>2 DEF Next

(***************************************************************************)
(* A successful run without a hook has put every row it read either into   *)
(* the target or into the quarantine, the latter for exactly the rows its  *)
(* broken rules reject, and has not let a broken abort rule pass unless    *)
(* the contract only warns (evaluate_quality, effective_action,            *)
(* write_quarantine).                                                      *)
(***************************************************************************)
THEOREM RowsAreAccountedFor == Spec => []SplitIsExact
  <1>1. SplitInv => SplitIsExact
    BY DEF SplitInv
  <1> QED BY <1>1, SplitInvInit, SplitInvNext, PTL DEF Spec

(***************************************************************************)
(* Rows in the tables belong to runs of the contract, and what             *)
(* evaluate_quality isolates has been read.                                *)
(***************************************************************************)
THEOREM PreparationTypeCorrect == Spec => []TypeOK
  <1>1. SplitInv => TypeOK
    BY ContractFacts DEF SplitInv, RunsInv, Locals, Attributed, Accounts, Rows, TypeOK
  <1> QED BY <1>1, SplitInvInit, SplitInvNext, PTL DEF Spec

-----------------------------------------------------------------------------
(***************************************************************************)
(* The evolution of the target.                                            *)
(*                                                                         *)
(* What a run changes was decided at its check, against a schema that      *)
(* other runs may have changed since. ChangesInv says what its decision    *)
(* permits. For `strict` that is not enough: a run that wrote into a table *)
(* it has not been checked against would extend it (mergeSchema).          *)
(* StrictInv excludes that: whoever has been checked against an existing   *)
(* table brings no column it lacks, and while there is no table, one run   *)
(* is active at most. This is where FirstAlone is needed, and two first    *)
(* loads that overlap do break it.                                         *)
(***************************************************************************)
\* Runs that have started and are not over.
Active(r) == pc[r] \notin {"idle"} \cup Ended
Checked == {"add", "widen", "report", "evaluate", "log_rules", "decide", "isolate",
            "check", "hook", "check_again", "write"}

\* What validate_schema_policy lets through.
ChangesInv(r) ==
    /\ contract.policy = "strict" => changes[r].added = {} /\ changes[r].types = {}
    /\ changes[r].types # {} => contract.widening

\* Contracts under which the schema is the one the table was created with.
Strict == contract.policy = "strict" /\ contract.mode # "overwrite"

\* Under these, every checked run fits the table, or creates it alone.
StrictInv ==
    /\ IsSchema(schema)
    /\ schema = NoTable => \A q, r \in Runs : Active(q) /\ Active(r) => q = r
    /\ \A r \in Runs : /\ Active(r) /\ pc[r] \notin {"prepare", "raised"} => IsSchema(columns[r])
                       /\ pc[r] \in Checked /\ schema # NoTable => DOMAIN columns[r] \subseteq DOMAIN schema

\* The inductive invariant.
SchemaInv ==
    /\ RunsInv
    /\ \A r \in Runs : ChangesInv(r)
    /\ Strict => StrictInv

\* What a run may decide to change.
LEMMA ChangesInvNext ==
  ASSUME RunsInv, \A q \in Runs : ChangesInv(q), NEW r \in Runs, Advance(r) \/ StatementFails(r) \/ Crash(r)
  PROVE  \A q \in Runs : ChangesInv(q)'
  <1> USE DEF Goto
  <1>0. Locals /\ contract' = contract
    BY Steps DEF RunsInv
  <1>1. CASE changes' = changes
    BY <1>0, <1>1 DEF ChangesInv
  <1>2. CASE CheckSchema(r)
    <2>1. CASE changes' = [changes EXCEPT ![r] = NoChanges]
      BY <1>0, <2>1 DEF ChangesInv, NoChanges, Locals
    <2>2. CASE /\ schema # NoTable /\ ~ Violates(columns[r])
               /\ changes' = [changes EXCEPT ![r] = [status |-> "checked", added |-> Added(columns[r]),
                                                     types |-> Retyped(columns[r])]]
      <3>1. /\ contract.policy = "strict" => Added(columns[r]) = {} /\ Retyped(columns[r]) = {}
            /\ Retyped(columns[r]) # {} => contract.widening
        BY <2>2, ContractFacts DEF Violates, Allowed, RunsInv
      <3> QED BY <1>0, <2>2, <3>1 DEF ChangesInv, Locals
    <2> QED BY <1>1, <1>2, <2>1, <2>2 DEF CheckSchema
  <1> QED BY <1>1, <1>2
          DEF Advance, Read, Prepare, AddColumns, WidenColumn, ReportChanges, Evaluate, LogRules, LogRun,
              Decide, Isolate, CheckMerge, BeforeWrite, Write, StatementFails, Crash, local

\* Under strict, only the write that creates the table changes its schema.
LEMMA StrictChanges ==
  ASSUME SchemaInv, Strict, NEW r \in Runs, Advance(r) \/ StatementFails(r) \/ Crash(r), schema' # schema
  PROVE  Write(r) /\ schema = NoTable /\ schema' = columns[r] /\ pc'[r] = "succeeded"
  <1>1. CASE AddColumns(r)
    BY <1>1 DEF AddColumns, SchemaInv, ChangesInv, Strict
  <1>2. CASE WidenColumn(r)
    BY <1>2 DEF WidenColumn, SchemaInv, ChangesInv, Strict
  <1>3. CASE Write(r)
    <2>1. CASE schema = NoTable
      BY <1>3, <2>1 DEF Write, Goto, SchemaInv, RunsInv, Locals
    <2>2. CASE schema # NoTable
      <3>1. DOMAIN columns[r] \subseteq DOMAIN schema /\ IsSchema(schema)
        BY <1>3, <2>2 DEF Write, SchemaInv, StrictInv, Checked
      <3>2. ExtendedBy(schema, columns[r]) = schema
        <4>1. DOMAIN schema \cup DOMAIN columns[r] = DOMAIN schema
          BY <3>1
        <4>2. ExtendedBy(schema, columns[r]) = [c \in DOMAIN schema |-> schema[c]]
          BY <4>1 DEF ExtendedBy
        <4> QED BY <3>1, <4>2 DEF IsSchema
      <3> QED BY <1>3, <2>2, <3>2, ContractFacts DEF Write, SchemaInv, RunsInv, Strict
    <2> QED BY <2>1, <2>2
  <1> QED BY <1>1, <1>2, <1>3
          DEF Advance, Read, Prepare, CheckSchema, ReportChanges, Evaluate, LogRules, LogRun,
              Decide, Isolate, CheckMerge, BeforeWrite, StatementFails, Crash, tables

\* The table is created, or its schema stays.
LEMMA StrictInvNext ==
  ASSUME FirstAlone, SchemaInv, Strict, NEW r \in Runs, Advance(r) \/ StatementFails(r) \/ Crash(r)
  PROVE  StrictInv'
  <1> USE DEF Goto
  <1>0. /\ RunsInv /\ RunsInv' /\ Locals /\ Locals' /\ contract' = contract /\ StrictInv
        /\ \A q \in Runs \ {r} : pc'[q] = pc[q] /\ columns'[q] = columns[q]
    BY Steps DEF SchemaInv, RunsInv, Own
  <1>1. CASE schema' # schema
    <2>1. Write(r) /\ schema = NoTable /\ schema' = columns[r] /\ pc'[r] = "succeeded"
      BY <1>1, StrictChanges
    <2>2. \A q \in Runs \ {r} : ~ Active(q)
      BY <1>0, <2>1 DEF StrictInv, Active, Write, Ended
    <2>3. IsSchema(columns[r]) /\ columns' = columns
      BY <1>0, <2>1 DEF StrictInv, Active, Write, Ended, local
    <2> QED BY <1>0, <2>1, <2>2, <2>3 DEF StrictInv, Active, Checked, Ended, IsSchema
  <1>2. CASE schema' = schema
    <2>1. IsSchema(schema')
      BY <1>0, <1>2 DEF StrictInv
    <2>2. ASSUME schema = NoTable, NEW q \in Runs \ {r} PROVE ~ (Active(q)' /\ Active(r)')
      <3>1. CASE Active(r)
        BY <1>0, <2>2, <3>1 DEF StrictInv, Active
      <3>2. CASE ~ Active(r) /\ Active(r)'
        <4>1. Read(r)
          BY <3>2 DEF Active, Advance, Prepare, CheckSchema, AddColumns, WidenColumn, ReportChanges, Evaluate,
                LogRules, LogRun, Decide, Isolate, CheckMerge, BeforeWrite, Write, StatementFails, Crash,
                Stages, Handlers, Ended
        <4> QED BY <1>0, <2>2, <4>1 DEF Read, MayStart, Active
      <3> QED BY <3>1, <3>2
    <2>3. Active(r)' /\ pc'[r] \notin {"prepare", "raised"} => IsSchema(columns'[r])
      <3>1. CASE Prepare(r)
        <4>1. pc'[r] = "schema" => columns'[r] = PreparedSchema(contract.mapping, source[r].schema)
          BY <1>0, <3>1 DEF Prepare, Locals
        <4>2. IsSchema(PreparedSchema(contract.mapping, source[r].schema))
          BY DEF IsSchema, PreparedSchema
        <4>3. pc'[r] \in {"schema", "raised"}
          BY <1>0, <3>1 DEF Prepare, Locals
        <4> QED BY <4>1, <4>2, <4>3 DEF IsSchema
      <3>2. CASE ~ Prepare(r)
        <4>1. columns' = columns
          BY <3>2 DEF Advance, Read, CheckSchema, AddColumns, WidenColumn, ReportChanges, Evaluate, LogRules,
                LogRun, Decide, Isolate, CheckMerge, BeforeWrite, Write, StatementFails, Crash, local
        <4>2. \/ pc'[r] \in {"prepare", "raised"} \cup Ended
              \/ Active(r) /\ pc[r] \notin {"prepare", "raised"}
          BY <1>0, <3>2
             DEF Active, Advance, Read, CheckSchema, AddColumns, WidenColumn, ReportChanges, Evaluate, LogRules,
                LogRun, Decide, Isolate, CheckMerge, BeforeWrite, Write, StatementFails, Crash, Ended, Handlers,
                Locals
        <4> QED BY <1>0, <4>1, <4>2 DEF StrictInv, Active
      <3> QED BY <3>1, <3>2
    <2>4. pc'[r] \in Checked /\ schema # NoTable => DOMAIN columns'[r] \subseteq DOMAIN schema
      <3>1. CASE CheckSchema(r)
        <4>1. pc'[r] \in Checked /\ schema # NoTable => ~ Violates(columns[r])
          BY <1>0, <3>1 DEF CheckSchema, Checked, Locals
        <4>2. ~ Violates(columns[r]) => DOMAIN columns[r] \subseteq DOMAIN schema
          BY DEF Violates, Added, Strict
        <4> QED BY <3>1, <4>1, <4>2 DEF CheckSchema
      <3>2. CASE ~ CheckSchema(r)
        <4>1. pc'[r] \in Checked => pc[r] \in Checked /\ columns' = columns
          <5>1. CASE Read(r) \/ Prepare(r) \/ Write(r)
            <6>1. CASE Read(r) \/ Prepare(r)
              BY <1>0, <6>1 DEF Read, Prepare, Checked, Locals
            <6>2. CASE Write(r)
              <7>1. pc'[r] \in {"succeeded", "raised"}
                BY <1>0, <6>2, ContractFacts DEF Write, Locals, RunsInv
              <7> QED BY <7>1 DEF Checked
            <6> QED BY <5>1, <6>1, <6>2
          <5>2. CASE ~ (Read(r) \/ Prepare(r) \/ Write(r))
            BY <1>0, <3>2, <5>2
               DEF Advance, AddColumns, WidenColumn, ReportChanges, Evaluate, LogRules,
                LogRun, Decide, Isolate, CheckMerge, BeforeWrite, StatementFails, Crash, Checked, local, Locals
          <5> QED BY <5>1, <5>2
        <4> QED BY <1>0, <4>1 DEF StrictInv
      <3> QED BY <3>1, <3>2
    <2>5. ASSUME NEW q \in Runs
          PROVE  /\ Active(q)' /\ pc'[q] \notin {"prepare", "raised"} => IsSchema(columns'[q])
                 /\ pc'[q] \in Checked /\ schema # NoTable => DOMAIN columns'[q] \subseteq DOMAIN schema
      BY <1>0, <2>3, <2>4 DEF StrictInv, Active
    <2> QED BY <1>0, <1>2, <2>1, <2>2, <2>5 DEF StrictInv, Active, IsSchema
  <1> QED BY <1>1, <1>2

\* Both parts together.
LEMMA SchemaInvNext == ASSUME FirstAlone PROVE SchemaInv /\ [Next]_vars => SchemaInv'
  <1>1. ASSUME SchemaInv, NEW r \in Runs, Advance(r) \/ StatementFails(r) \/ Crash(r) PROVE SchemaInv'
    <2>1. RunsInv' /\ contract' = contract
      BY <1>1, Steps DEF SchemaInv
    <2> QED BY <1>1, <2>1, ChangesInvNext, StrictInvNext DEF SchemaInv, Strict
  <1>2. SchemaInv /\ UNCHANGED vars => SchemaInv'
    <2> SUFFICES ASSUME SchemaInv, UNCHANGED vars PROVE SchemaInv'
      OBVIOUS
    <2>1. RunsInv' /\ UNCHANGED <<contract, pc, schema, columns, changes>>
      BY RunsInvNext DEF SchemaInv, vars, local, tables
    <2> QED BY <2>1 DEF SchemaInv, ChangesInv, Strict, StrictInv, Active, IsSchema
  <1> QED BY <1>1, <1>2 DEF Next

(***************************************************************************)
(* Where first loads do not overlap, an existing table keeps its columns,  *)
(* gets wider types only with allow_type_widening, and under `strict`      *)
(* keeps its schema, although other runs change the schema between the     *)
(* check of a run and its own changes (validate_schema_policy,             *)
(* sync_delta_schema, mergeSchema). Overwrites replace the schema and are  *)
(* left out.                                                               *)
(***************************************************************************)
THEOREM SchemaEvolvesAsPermitted == ASSUME FirstAlone PROVE Spec => EvolutionIsPermitted
  <1>1. Init => SchemaInv
    <2> SUFFICES ASSUME Init PROVE SchemaInv
      OBVIOUS
    <2>1. RunsInv /\ schema \in contract.tables
      BY RunsInvInit DEF Init
    <2> QED BY <2>1, ContractFacts
            DEF Init, RunsInv, SchemaInv, ChangesInv, NoChanges, StrictInv, Active, Checked
  <1>2. SchemaInv /\ [Next]_vars => SchemaInv'
    BY SchemaInvNext
  <1>3. SchemaInv /\ [Next]_vars =>
           [schema # NoTable /\ schema' # schema /\ contract.mode # "overwrite" =>
              /\ contract.policy # "strict"
              /\ DOMAIN schema \subseteq DOMAIN schema'
              /\ \A c \in DOMAIN schema : schema'[c] # schema[c] =>
                    contract.widening /\ TypeChangeSupported(schema[c], schema'[c])]_vars
    <2> SUFFICES ASSUME SchemaInv, NEW r \in Runs, Advance(r) \/ StatementFails(r) \/ Crash(r),
                        schema # NoTable, schema' # schema, contract.mode # "overwrite"
                 PROVE  /\ contract.policy # "strict"
                        /\ DOMAIN schema \subseteq DOMAIN schema'
                        /\ \A c \in DOMAIN schema : schema'[c] # schema[c] =>
                              contract.widening /\ TypeChangeSupported(schema[c], schema'[c])
      BY DEF Next, vars
    <2>1. contract.policy # "strict"
      BY StrictChanges DEF Strict
    <2>2. ASSUME NEW new, schema' = ExtendedBy(schema, new)
          PROVE  DOMAIN schema \subseteq DOMAIN schema' /\ \A c \in DOMAIN schema : schema'[c] = schema[c]
      BY <2>2 DEF ExtendedBy
    <2>3. CASE AddColumns(r)
      BY <2>1, <2>2, <2>3 DEF AddColumns
    <2>4. CASE WidenColumn(r)
      <3>1. PICK c \in changes[r].types : /\ TypeChangeSupported(schema[c], columns[r][c])
                                          /\ schema' = [schema EXCEPT ![c] = columns[r][c]]
        BY <2>4 DEF WidenColumn
      <3>2. contract.widening
        BY <3>1 DEF SchemaInv, ChangesInv
      <3>3. DOMAIN schema' = DOMAIN schema
        BY <3>1
      <3>4. ASSUME NEW d \in DOMAIN schema, schema'[d] # schema[d]
            PROVE  d = c /\ schema'[d] = columns[r][c]
        BY <3>1, <3>4
      <3> QED BY <2>1, <3>1, <3>2, <3>3, <3>4
    <2>5. CASE Write(r)
      BY <2>1, <2>2, <2>5, ContractFacts DEF Write, SchemaInv, RunsInv
    <2> QED BY <2>3, <2>4, <2>5
            DEF Advance, Read, Prepare, CheckSchema, ReportChanges, Evaluate, LogRules, LogRun,
              Decide, Isolate, CheckMerge, BeforeWrite, StatementFails, Crash, tables
  <1> QED BY <1>1, <1>2, <1>3, PTL DEF Spec, EvolutionIsPermitted
=============================================================================
