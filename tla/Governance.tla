------------------------------ MODULE Governance ------------------------------
(***************************************************************************)
(* Governance of one table (governance.py, bundles.py): calls that bring   *)
(* the catalog to what contracts declare and write an audit row for every  *)
(* statement.  A call is the governance stage of an ingestion, one of the  *)
(* apply_*_bundle functions or validate-access.  Calls of several versions *)
(* of the contracts run side by side, and administrators grant and revoke  *)
(* by hand.                                                                *)
(*                                                                         *)
(* Nothing is atomic: the grants are read once, the statements they lead   *)
(* to are sent one by one, and the audit rows of all of them are inserted  *)
(* one by one afterwards.                                                  *)
(***************************************************************************)
EXTENDS Integers, Sequences, SequencesExt, FiniteSets

CONSTANTS
    Calls,         \* the calls
    Schedules,     \* what they may be asked to do, a request for each call
    Grants,        \* pairs of a principal and a privilege
    Columns,       \* the columns contracts may name
    TableColumns,  \* those the table has
    Words,         \* descriptions, tag values and functions of filters and masks
    Unset,         \* SQL NULL, None
    InitialGrants, \* the grants the table may have at first
    MaxByHand,     \* bound on grants and revocations by hand
    Faults         \* what may go wrong, see FaultKinds

FaultKinds ==
    {"statement",   \* the catalog refuses a statement
     "read",        \* SHOW GRANTS fails
     "control",     \* an INSERT of a control table fails
     "crash"}       \* the driver disappears

Table == "table"
Objects == Columns \cup {Table}
AliasKeys == <<"alias_1", "alias_2">>
TagKeys == {"team", "contains_pii", "pii", "pii_type", "sensitivity", "deprecated",
            "deprecated_since", "deprecated_replacement"} \cup Range(AliasKeys)
Kinds == {"ingest", "governance", "annotations", "access", "validate_access"}

ASSUME TableAssumption == TableColumns \subseteq Columns /\ Table \notin Columns
ASSUME FinitenessAssumption == IsFiniteSet(Columns) /\ IsFiniteSet(Grants)
ASSUME UnsetAssumption == Unset \notin Words \cup Grants
ASSUME InitialAssumption == InitialGrants \subseteq SUBSET Grants
ASSUME BoundAssumption == MaxByHand \in Nat
ASSUME GovernanceFaultsAssumption == Faults \subseteq FaultKinds

VARIABLES
    grants,      \* the grants of the table in the catalog
    rowFilter,   \* its row filter
    masks,       \* the mask of each column
    comments,    \* the comment of the table and of each column
    tags,        \* their tags
    byHand,      \* changes made by hand so far
    request,     \* what each call was asked to do
    pc,          \* the next statement of each call
    drift,       \* local variable drift
    steps,       \* local variable steps
    entries,     \* status of the steps already tried, in their order
    audit,       \* the rows of the call in ctrl_ingestion_annotations or _access
    recorded,    \* the call has a row in ctrl_ingestion_operations
    result,      \* the status of apply_annotations_contract or apply_access_contract
    checked,     \* the status of the governance_check it returns
    executed,    \* ghost: the steps whose statement the catalog accepted
    disturbed    \* ghost: somebody else has changed the catalog under the call

catalog  == <<grants, rowFilter, masks, comments, tags>>
progress == <<drift, steps, entries, audit, recorded, result, checked>>
ghosts   == <<executed, disturbed>>
vars == <<catalog, byHand, request, pc, progress, ghosts>>
-----------------------------------------------------------------------------
(***************************************************************************)
(* The contracts, as their normalisation lets them through.                *)
(***************************************************************************)
Annotation ==
    [description : Words \cup {Unset}, aliases : BoundedSeq(Words, Len(AliasKeys)),
     tags : UNION {[K -> Words] : K \in SUBSET {"team", "contains_pii"}},
     pii : {Unset} \cup [enabled : BOOLEAN], deprecated : BOOLEAN]

\* columns is a partial function: the contract names the columns it describes.
IsAnnotationsContract(c) ==
    /\ c.policy \in {"fail", "warn", "ignore"}
    /\ c.table \in Annotation
    /\ DOMAIN c.columns \subseteq Columns
    /\ \A col \in DOMAIN c.columns : c.columns[col] \in Annotation

IsAccessContract(c) ==
    /\ c.mode \in {"apply", "validate_only", "ignore"}
    /\ c.onDrift \in {"fail", "warn", "reconcile"}
    /\ c.revoke \in BOOLEAN
    /\ c.grants \in Seq(Grants)
    /\ c.filters \in Seq([function : Words, columns : (SUBSET Columns) \ {{}}])
    /\ c.masks \in Seq([column : Columns, function : Words, using : SUBSET Columns])

\* unity: the name of the target has three parts; contract.operations is only
\* recorded.
IsRequest(q) ==
    /\ q.kind \in Kinds
    /\ {q.force, q.operations, q.unity} \subseteq BOOLEAN
    /\ q.annotations # Unset => IsAnnotationsContract(q.annotations)
    /\ q.access # Unset => IsAccessContract(q.access)

ASSUME SchedulesAssumption ==
    \A s \in Schedules : DOMAIN s = Calls /\ \A c \in Calls : IsRequest(s[c])
-----------------------------------------------------------------------------
(***************************************************************************)
(* The statements a contract stands for.                                   *)
(***************************************************************************)
Overlay(f, g) == [k \in DOMAIN f \cup DOMAIN g |-> IF k \in DOMAIN g THEN g[k] ELSE f[k]]

AliasTags(aliases) ==
    [k \in {AliasKeys[i] : i \in DOMAIN aliases} |->
        aliases[CHOOSE i \in DOMAIN aliases : AliasKeys[i] = k]]

\* The values of the generated tags do not matter; that they are set does.
PiiTags(pii) ==
    [k \in IF pii = Unset THEN {} ELSE {"pii", "pii_type", "sensitivity"} |-> pii]

DeprecatedTags(deprecated) ==
    [k \in IF deprecated THEN {"deprecated", "deprecated_since", "deprecated_replacement"} ELSE {}
        |-> deprecated]

\* tags, aliases, pii and deprecated in this order, a later key replacing.
AllTags(a) ==
    Overlay(Overlay(Overlay(a.tags, AliasTags(a.aliases)), PiiTags(a.pii)),
            DeprecatedTags(a.deprecated))

Step(type, object, value) == [type |-> type, object |-> object, value |-> value]

Describe(object, a) ==
    (IF a.description # Unset THEN <<Step("comment", object, a.description)>> ELSE <<>>)
    \o (IF DOMAIN AllTags(a) # {} THEN <<Step("tags", object, AllTags(a))>> ELSE <<>>)

\* _annotation_steps: the table, then the columns.
AnnotationSteps(c) ==
    Describe(Table, c.table)
    \o FlattenSeq([i \in 1 .. Cardinality(DOMAIN c.columns) |->
                      LET col == SetToSeq(DOMAIN c.columns)[i] IN Describe(col, c.columns[col])])

\* _access_steps: grants, row filters and masks, as they are declared.
AccessSteps(c) ==
    [i \in DOMAIN c.grants |-> Step("grant", c.grants[i], Unset)]
    \o [i \in DOMAIN c.filters |-> Step("row_filter", Table, c.filters[i].function)]
    \o [i \in DOMAIN c.masks |-> Step("mask", c.masks[i].column, c.masks[i].function)]

\* Faulty variant of RevokeSteps: whatever the catalog holds.
RevokeAllSteps(d) ==
    [i \in 1 .. Cardinality(d.current) |-> Step("revoke", SetToSeq(d.current)[i], Unset)]

\* _revoke_grant_steps
RevokeSteps(d) ==
    [i \in 1 .. Cardinality(d.unmanaged) |-> Step("revoke", SetToSeq(d.unmanaged)[i], Unset)]
-----------------------------------------------------------------------------
(***************************************************************************)
(* Validation and drift.                                                   *)
(***************************************************************************)
NeedsTags(a) == DOMAIN a.tags # {} \/ a.aliases # <<>> \/ a.pii # Unset \/ a.deprecated

\* The issues of severity fail; a declared contains_pii means true.
AnnotationsInvalid(c, unity) ==
    \/ /\ c.policy = "fail" /\ ~unity
       /\ \E a \in {c.table} \cup Range(c.columns) : NeedsTags(a)
    \/ "contains_pii" \in DOMAIN c.table.tags
       /\ \A a \in Range(c.columns) : (a.pii # Unset => ~a.pii.enabled)
    \/ ~ (DOMAIN c.columns \subseteq TableColumns)

AccessInvalid(c, unity) ==
    \/ ~unity /\ c.filters \o c.masks # <<>>
    \/ \E f \in Range(c.filters) : ~ (f.columns \subseteq TableColumns)
    \/ \E m \in Range(c.masks) : ~ ({m.column} \cup m.using \subseteq TableColumns)

OnAccess(q) == q.kind \in {"access", "validate_access"}
Contract(q) == IF OnAccess(q) THEN q.access ELSE q.annotations

Invalid(q) ==
    /\ Contract(q) # Unset
    /\ IF OnAccess(q) THEN AccessInvalid(q.access, q.unity) ELSE AnnotationsInvalid(q.annotations, q.unity)

Declared(c) == Range(c.grants)

NoDrift(status) == [status |-> status, current |-> {}, missing |-> {}, unmanaged |-> {}]

\* access_drift_report
DriftReport(c) ==
    LET missing   == Declared(c) \ grants
        unmanaged == grants \ Declared(c)
    IN  [status |-> IF missing # {} \/ (c.revoke /\ unmanaged # {}) THEN "DRIFTED" ELSE "IN_SYNC",
         current |-> grants, missing |-> missing, unmanaged |-> unmanaged]

Reports(c) ==
    IF c = Unset THEN {NoDrift("NOT_CONFIGURED")}
    ELSE {DriftReport(c)} \cup (IF "read" \in Faults THEN {NoDrift("FAILED")} ELSE {})

\* The status of validate-access, and of governance_check when the other
\* contracts of the bundle are in order.
CheckStatus(c, d) ==
    IF d.status = "FAILED" \/ (d.status = "DRIFTED" /\ c.onDrift = "fail") THEN "FAILED"
    ELSE IF d.status = "DRIFTED" THEN "WARNED" ELSE "SUCCESS"
-----------------------------------------------------------------------------
Ended == {"returned", "raised", "unlogged", "crashed"}
PCs == {"validate", "operations", "annotate", "drift", "apply", "log", "log_raise", "check"} \cup Ended

\* A call has read what it works from.
Started(c) == pc[c] \notin {"validate", "operations", "annotate", "drift"}

Init ==
    /\ grants \in InitialGrants
    /\ rowFilter = Unset
    /\ masks = [col \in Columns |-> Unset]
    /\ comments = [x \in Objects |-> Unset]
    /\ tags = [x \in Objects |-> <<>>]
    /\ byHand = 0
    /\ request \in Schedules
    /\ pc = [c \in Calls |-> "validate"]
    /\ drift = [c \in Calls |-> NoDrift("NOT_CONFIGURED")]
    /\ steps = [c \in Calls |-> <<>>]
    /\ entries = [c \in Calls |-> <<>>]
    /\ audit = [c \in Calls |-> <<>>]
    /\ recorded = {}
    /\ result = [c \in Calls |-> "NOT_CONFIGURED"]
    /\ checked = [c \in Calls |-> "NONE"]
    /\ executed = [c \in Calls |-> {}]
    /\ disturbed = {}

Goto(c, label) == pc' = [pc EXCEPT ![c] = label]

\* validate_governance_contract; the schema of the table may be unreadable.
Validate(c) ==
    /\ pc[c] = "validate"
    /\ LET q == request[c] IN
          \/ /\ Invalid(q) \/ "read" \in Faults
             /\ q.kind # "validate_access"
             /\ Goto(c, "raised")
          \/ /\ ~Invalid(q) \/ q.kind = "validate_access"
             /\ Goto(c, IF OnAccess(q) THEN "drift"
                        ELSE IF q.kind # "annotations" /\ q.operations THEN "operations"
                        ELSE "annotate")
    /\ UNCHANGED <<catalog, byHand, request, progress, ghosts>>

RecordOperations(c) ==
    /\ pc[c] = "operations"
    /\ \/ recorded' = recorded \cup {c} /\ Goto(c, "annotate")
       \/ "control" \in Faults /\ Goto(c, "unlogged") /\ UNCHANGED recorded
    /\ UNCHANGED <<catalog, byHand, request, drift, steps, entries, audit, result, checked, ghosts>>

\* Without statements to send every step gets this status.
Skip(c, ss, status) ==
    /\ entries' = [entries EXCEPT ![c] = [i \in DOMAIN ss |-> status]]
    /\ result' = [result EXCEPT ![c] = status]
    /\ Goto(c, "log")

Send(c, ss) ==
    /\ result' = [result EXCEPT ![c] = "SUCCESS"]
    /\ Goto(c, IF ss = <<>> THEN "log" ELSE "apply")
    /\ UNCHANGED entries

\* apply_annotations_contract up to its loop.
PlanAnnotations(c) ==
    /\ pc[c] = "annotate"
    /\ LET contract == request[c].annotations IN
          \/ /\ contract = Unset
             /\ Goto(c, "returned")
             /\ UNCHANGED <<steps, entries, result>>
          \/ /\ contract # Unset
             /\ steps' = [steps EXCEPT ![c] = AnnotationSteps(contract)]
             /\ IF contract.policy = "ignore" THEN Skip(c, steps'[c], "IGNORED") ELSE Send(c, steps'[c])
    /\ UNCHANGED <<catalog, byHand, request, drift, audit, recorded, checked, ghosts>>

\* revoke_unmanaged needs --force-revoke too.
MayRevoke(q) == q.access.revoke => q.force

\* apply_access_contract up to its loop: the grants are read here, once.
PlanAccess(c) ==
    /\ pc[c] = "drift" /\ request[c].kind = "access"
    /\ LET contract == request[c].access IN
       \E d \in Reports(contract) :
          \/ /\ contract = Unset
             /\ Goto(c, "check")
             /\ UNCHANGED <<drift, steps, entries, result>>
          \/ /\ contract # Unset
             /\ \/ ~MayRevoke(request[c])
                \/ contract.onDrift = "fail" /\ d.status \in {"FAILED", "DRIFTED"}
             /\ Goto(c, "raised")
             /\ UNCHANGED <<drift, steps, entries, result>>
          \/ /\ contract # Unset /\ MayRevoke(request[c])
             /\ contract.onDrift = "fail" => d.status = "IN_SYNC"
             /\ drift' = [drift EXCEPT ![c] = d]
             /\ steps' = [steps EXCEPT ![c] =
                    AccessSteps(contract)
                    \o (IF contract.revoke /\ d.status # "FAILED" THEN RevokeSteps(d) ELSE <<>>)]
             /\ \/ contract.mode = "ignore" /\ Skip(c, steps'[c], "IGNORED")
                \/ contract.mode = "validate_only" /\ Skip(c, steps'[c], "VALIDATED")
                \/ contract.mode = "apply" /\ Send(c, steps'[c])
    /\ UNCHANGED <<catalog, byHand, request, audit, recorded, checked, ghosts>>

\* validate-access only reports, what it finds invalid too.
ValidateAccess(c) ==
    /\ pc[c] = "drift" /\ request[c].kind = "validate_access"
    /\ \E d \in Reports(request[c].access) :
          /\ drift' = [drift EXCEPT ![c] = d]
          /\ checked' = [checked EXCEPT ![c] =
                            IF Invalid(request[c]) THEN "FAILED" ELSE CheckStatus(request[c].access, d)]
    /\ Goto(c, "returned")
    /\ UNCHANGED <<catalog, byHand, request, steps, entries, audit, recorded, result, ghosts>>
-----------------------------------------------------------------------------
(***************************************************************************)
(* The loops of apply_annotations_contract and apply_access_contract.      *)
(***************************************************************************)

\* What a statement does to the catalog.
Effect(s) ==
    /\ grants' = IF s.type = "grant" THEN grants \cup {s.object}
                 ELSE IF s.type = "revoke" THEN grants \ {s.object} ELSE grants
    /\ rowFilter' = IF s.type = "row_filter" THEN s.value ELSE rowFilter
    /\ masks' = IF s.type = "mask" THEN [masks EXCEPT ![s.object] = s.value] ELSE masks
    /\ comments' = IF s.type = "comment" THEN [comments EXCEPT ![s.object] = s.value] ELSE comments
    /\ tags' = IF s.type = "tags" THEN [tags EXCEPT ![s.object] = Overlay(tags[s.object], s.value)]
               ELSE tags

NextStep(c) == steps[c][Len(entries[c]) + 1]

\* Statements a metastore other than Unity Catalog does not know.
Unsupported(c) == ~request[c].unity /\ NextStep(c).type \in {"tags", "row_filter", "mask"}

\* Those who work from a state that a change by c to contract makes stale.
Disturb(c, contract) ==
    disturbed' = IF UNCHANGED catalog THEN disturbed
                 ELSE disturbed \cup {x \in Calls \ {c} : Started(x) /\ Contract(request[x]) # contract}

Strict(q) == IF OnAccess(q) THEN q.access.onDrift = "fail" ELSE q.annotations.policy = "fail"

\* The loop goes on, or ends with its last step.
Advance(c, status) ==
    /\ entries' = [entries EXCEPT ![c] = Append(@, status)]
    /\ Goto(c, IF Len(entries[c]) + 1 = Len(steps[c]) THEN "log" ELSE "apply")

Execute(c) ==
    /\ pc[c] = "apply"
    /\ ~Unsupported(c)
    /\ Effect(NextStep(c))
    /\ executed' = [executed EXCEPT ![c] = @ \cup {Len(entries[c]) + 1}]
    /\ Advance(c, "APPLIED")
    /\ Disturb(c, Contract(request[c]))
    /\ UNCHANGED <<byHand, request, drift, steps, audit, recorded, result, checked>>

\* Faulty variant of FailFast: the exception leaves before the log.
FailFastUnlogged(c) ==
    /\ entries' = [entries EXCEPT ![c] = Append(@, "FAILED")]
    /\ Goto(c, "raised")

\* Under the policy fail the entries so far are logged, then it raises.
FailFast(c) ==
    /\ entries' = [entries EXCEPT ![c] = Append(@, "FAILED")]
    /\ Goto(c, "log_raise")

\* Faulty variant of Warn: failed is counted, the status stays SUCCESS.
WarnSilently(c) == UNCHANGED result

Warn(c) == result' = [result EXCEPT ![c] = "WARNED"]

\* The except clause of the loop.
ExecuteFails(c) ==
    /\ pc[c] = "apply"
    /\ "statement" \in Faults \/ Unsupported(c)
    /\ \/ Strict(request[c]) /\ FailFast(c) /\ UNCHANGED result
       \/ ~Strict(request[c]) /\ Advance(c, "WARNED") /\ Warn(c)
    /\ UNCHANGED <<catalog, byHand, request, drift, steps, audit, recorded, checked, ghosts>>

\* previous_value is GRANTED for a grant the report had seen.
Row(c, i) ==
    [step |-> steps[c][i], status |-> entries[c][i],
     granted |-> /\ steps[c][i].type \in {"grant", "revoke"}
                 /\ steps[c][i].object \in drift[c].current
                 /\ entries[c][i] \in {"APPLIED", "VALIDATED"}]

\* log_annotation_entries, log_access_entries: one INSERT for each entry, to
\* tables no call reads; a failing INSERT or a crash leaves a prefix.
LogEntries(c) ==
    /\ pc[c] \in {"log", "log_raise"}
    /\ \E n \in 0 .. Len(entries[c]) :
          /\ audit' = [audit EXCEPT ![c] = [i \in 1 .. n |-> Row(c, i)]]
          /\ \/ /\ n = Len(entries[c])
                /\ Goto(c, IF pc[c] = "log_raise" THEN "raised"
                           ELSE IF OnAccess(request[c]) THEN "check" ELSE "returned")
             \/ /\ n < Len(entries[c]) /\ Faults \cap {"control", "crash"} # {}
                /\ Goto(c, "unlogged")
    /\ UNCHANGED <<catalog, byHand, request, drift, steps, entries, recorded, result, checked, ghosts>>

\* apply_access_bundle ends with governance_check, whose report it returns.
Check(c) ==
    /\ pc[c] = "check"
    /\ \E d \in Reports(request[c].access) :
          checked' = [checked EXCEPT ![c] = CheckStatus(request[c].access, d)]
    /\ Goto(c, "returned")
    /\ UNCHANGED <<catalog, byHand, request, drift, steps, entries, audit, recorded, result, ghosts>>
-----------------------------------------------------------------------------
(***************************************************************************)
(* The environment.                                                        *)
(***************************************************************************)
Crash(c) ==
    /\ "crash" \in Faults /\ pc[c] \notin Ended
    /\ Goto(c, "crashed")
    /\ UNCHANGED <<catalog, byHand, request, progress, ghosts>>

ByHand ==
    /\ byHand < MaxByHand
    /\ byHand' = byHand + 1
    /\ \E g \in Grants : grants' \in {grants \cup {g}, grants \ {g}}
    /\ grants' # grants
    /\ disturbed' = disturbed \cup {c \in Calls : Started(c)}
    /\ UNCHANGED <<rowFilter, masks, comments, tags, request, pc, progress, executed>>

Finished ==
    /\ \A c \in Calls : pc[c] \in Ended
    /\ UNCHANGED vars

CallNext(c) ==
    \/ Validate(c) \/ RecordOperations(c) \/ PlanAnnotations(c) \/ PlanAccess(c)
    \/ ValidateAccess(c) \/ Execute(c) \/ ExecuteFails(c) \/ LogEntries(c) \/ Check(c)
    \/ Crash(c)

Next == (\E c \in Calls : CallNext(c)) \/ ByHand \/ Finished

Spec == Init /\ [][Next]_vars
-----------------------------------------------------------------------------
Statuses == {"NOT_CONFIGURED", "SUCCESS", "WARNED", "IGNORED", "VALIDATED"}
EntryStatuses == {"APPLIED", "WARNED", "FAILED", "IGNORED", "VALIDATED"}

TypeOK ==
    /\ grants \subseteq Grants
    /\ rowFilter \in Words \cup {Unset}
    /\ masks \in [Columns -> Words \cup {Unset}]
    /\ comments \in [Objects -> Words \cup {Unset}]
    /\ DOMAIN tags = Objects /\ \A x \in Objects : DOMAIN tags[x] \subseteq TagKeys
    /\ byHand \in 0 .. MaxByHand
    /\ request \in Schedules
    /\ pc \in [Calls -> PCs]
    /\ \A c \in Calls : drift[c].current \subseteq Grants
    /\ entries \in [Calls -> Seq(EntryStatuses)]
    /\ \A c \in Calls : Len(audit[c]) <= Len(entries[c]) /\ Len(entries[c]) <= Len(steps[c])
    /\ recorded \subseteq Calls
    /\ result \in [Calls -> Statuses]
    /\ checked \in [Calls -> {"NONE", "SUCCESS", "WARNED", "FAILED"}]
    /\ executed \in [Calls -> SUBSET Nat]
    /\ disturbed \subseteq Calls

(***************************************************************************)
(* The audit tables can be believed: a row says APPLIED exactly for a      *)
(* statement the catalog accepted, with the grant the call had seen, and   *)
(* a call that returns or raises, whatever failed before, has left a row   *)
(* for every statement it got accepted (apply_annotations_contract,        *)
(* apply_access_contract: log_entries runs before the exception leaves).   *)
(* Only a crash or a failing INSERT lets an accepted statement go          *)
(* unaudited.                                                              *)
(***************************************************************************)
AuditIsTruthful ==
    \A c \in Calls :
        /\ \A i \in DOMAIN audit[c] :
              /\ audit[c][i].status = "APPLIED" <=> i \in executed[c]
              /\ audit[c][i].step.type = "revoke" => audit[c][i].granted \/ i \notin executed[c]
        /\ pc[c] \in {"returned", "raised"} => executed[c] \subseteq DOMAIN audit[c]

\* Faulty variant of ReportedStatus: a call that has not raised has succeeded.
AlwaysSuccess(c) == "SUCCESS"

\* The status a call returns.  An ingestion and apply_governance_bundle only
\* report the one of the annotations beside their own, which is SUCCESS when
\* nothing was raised; the other two bundles pass a bad one on and turn the
\* rest into SUCCESS.
ReportedStatus(c) ==
    CASE request[c].kind \in {"ingest", "governance"} -> "SUCCESS"
      [] request[c].kind = "validate_access" -> checked[c]
      [] OTHER -> IF result[c] \in {"FAILED", "WARNED"} THEN result[c] ELSE "SUCCESS"

\* The status that tells about the contract: of a call whose own cannot, the
\* one it reports of its annotations.
ToldStatus(c) ==
    IF request[c].kind \in {"ingest", "governance"} THEN result[c] ELSE ReportedStatus(c)

\* The call was asked to bring the catalog to a contract.
ToApply(q) ==
    /\ q.kind # "validate_access" /\ Contract(q) # Unset
    /\ IF OnAccess(q) THEN q.access.mode = "apply" ELSE q.annotations.policy # "ignore"

\* What the contract of a call declares is in the catalog.
InForce(q) ==
    IF OnAccess(q)
    THEN /\ Declared(q.access) \subseteq grants
         /\ q.access.revoke => grants \subseteq Declared(q.access)
         /\ \A f \in Range(q.access.filters) : rowFilter = f.function
         /\ \A m \in Range(q.access.masks) : masks[m.column] = m.function
    ELSE \A x \in {Table} \cup DOMAIN q.annotations.columns :
            LET a == IF x = Table THEN q.annotations.table ELSE q.annotations.columns[x] IN
            /\ a.description # Unset => comments[x] = a.description
            /\ \A k \in DOMAIN AllTags(a) : k \in DOMAIN tags[x] /\ tags[x][k] = AllTags(a)[k]

(***************************************************************************)
(* A call that was asked to apply a contract and says SUCCESS has brought  *)
(* the catalog to it.  It says so with the status it returns               *)
(* (apply_annotations_bundle, apply_access_bundle) or, where that is       *)
(* always SUCCESS (apply_governance_bundle, an ingestion), with the status *)
(* it reports of the annotations.  Then, unless somebody working to        *)
(* another contract, or by hand, has changed the catalog since the call    *)
(* read the grants, or they could not be read, everything declared is in   *)
(* force, no unmanaged grant is left where they are to be revoked, and the *)
(* governance_check of apply_access_bundle finds no drift.  Any number of  *)
(* calls for the same contract, failed and crashed ones included, may run  *)
(* meanwhile.                                                              *)
(***************************************************************************)
AppliedStands ==
    \A c \in Calls :
        /\ pc[c] = "returned" /\ ToApply(request[c]) /\ ToldStatus(c) = "SUCCESS"
        /\ c \notin disturbed /\ drift[c].status # "FAILED"
        => /\ InForce(request[c])
           /\ checked[c] # "WARNED"
           /\ checked[c] = "FAILED" => "read" \in Faults

(***************************************************************************)
(* Changes of the grants stay within what was asked for and confirmed: a   *)
(* statement of a call only adds declared grants, and it only takes away a *)
(* grant its contract does not declare, that was there when the drift was  *)
(* computed, under revoke_unmanaged and --force-revoke; with on_drift =    *)
(* fail nothing is sent while the table is known to have drifted, and in   *)
(* the modes validate_only and ignore nothing at all.                      *)
(***************************************************************************)
Asked(c, before, after) ==
    LET contract == request[c].access IN
    /\ contract.mode = "apply"
    /\ after \ before \subseteq Declared(contract)
    /\ before \ after \subseteq drift[c].current \ Declared(contract)
    /\ before \ after # {} => contract.revoke /\ request[c].force
    /\ contract.onDrift = "fail" => drift[c].status = "IN_SYNC"

OnlyAskedFor ==
    [][grants' # grants /\ byHand' = byHand
        => \E c \in Calls : /\ request[c].kind = "access"
                            /\ executed'[c] # executed[c]
                            /\ Asked(c, grants, grants')]_vars
=============================================================================
