---------------------------- MODULE MCPreparation ----------------------------
(***************************************************************************)
(* Instances of Preparation for TLC.                                       *)
(***************************************************************************)
EXTENDS Preparation, TLC

CONSTANTS r1, r2

Integer == <<"integer", 2>>
BigInt == <<"integer", 3>>
Narrow == <<"decimal", 10, 2>>
Finer == <<"decimal", 10, 4>>

Rule(kind, severity) == [kind |-> kind, severity |-> severity]
NotNull == Rule("not_null", "quarantine")
Accepted == Rule("accepted_values", "quarantine")
Ratio == Rule("max_null_ratio", "quarantine")
Unique == Rule("unique_key", "abort")
AtLeast == Rule("min_rows", "abort")
Present == Rule("required_columns", "abort")
Positive(severity) == Rule("expression", severity)

Base == ("id" :> Integer @@ "v" :> Integer)
Stored == Base @@ ("__run_id" :> Text)
StoredWide == [Stored EXCEPT !["v"] = BigInt]

Plain == [mode |-> "append", policy |-> "permissive", widening |-> FALSE, dedup |-> FALSE,
          mapping |-> <<>>, required |-> {"id"}, rules |-> {}, onFail |-> "fail", hook |-> "none",
          runs |-> {r1}, tables |-> {Stored}, schemas |-> {Base}, batches |-> {}]

(***************************************************************************)
(* One run over every batch of up to three rows, with every set of rules   *)
(* the gates tell apart.                                                   *)
(***************************************************************************)
Row == [key : {k1, Null}, val : {"good", "bad", "null"}]
Batches == UNION {[1 .. n -> Row] : n \in 0 .. 3}

RuleSets == {{}, {NotNull}, {Accepted, Positive("quarantine")}, {Accepted, Positive("warn")},
             {Ratio, Accepted}, {Unique, NotNull}, {Positive("abort"), AtLeast}, {Unique, Positive("warn")}}

QualityScenarios ==
    LET all == {[Plain EXCEPT !.mode = m, !.dedup = d, !.rules = rules, !.onFail = f, !.hook = h,
                              !.batches = Batches] :
                   m \in {"append", "merge"}, d \in BOOLEAN, rules \in RuleSets,
                   f \in {"fail", "quarantine", "warn"}, h \in {"none", "filters", "normalises"}}
    IN  {s \in all : s.mode = "append" => ~s.dedup /\ s.hook # "normalises"}

(***************************************************************************)
(* Two runs whose sources have different schemas, on a table that exists   *)
(* or not yet.                                                             *)
(***************************************************************************)
Drifts == {Base, Base @@ ("x" :> Integer), ("id" :> Integer),
           [Base EXCEPT !["v"] = BigInt], [Base EXCEPT !["v"] = Double],
           ("id" :> Integer @@ "w" :> Integer @@ "__run_id" :> Integer)}

SchemaScenarios ==
    {[Plain EXCEPT !.mode = m, !.policy = p, !.widening = w, !.mapping = a, !.rules = {Present, NotNull},
                   !.runs = {r1, r2}, !.tables = {Stored, StoredWide, NoTable}, !.schemas = Drifts,
                   !.batches = {<<[key |-> k1, val |-> "good"]>>}] :
        m \in {"append", "overwrite", "merge"}, p \in {"strict", "additive_only", "permissive"},
        w \in BOOLEAN, a \in {<<>>, "w" :> "v"}}

AllScenarios == QualityScenarios \cup SchemaScenarios

\* A column is added and then the type of another one cannot be changed.
HalfEvolved ==
    {[Plain EXCEPT !.widening = TRUE, !.tables = {Stored @@ ("d" :> Narrow)},
                   !.schemas = {Base @@ ("d" :> Finer) @@ ("x" :> Integer)},
                   !.batches = {<<[key |-> k1, val |-> "good"]>>}]}
=============================================================================
