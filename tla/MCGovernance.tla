---------------------------- MODULE MCGovernance ----------------------------
(***************************************************************************)
(* An instance of Governance for TLC: two versions of the contracts of one *)
(* table.                                                                  *)
(***************************************************************************)
EXTENDS Governance

CONSTANTS reader, writer, legacy, email, secret, w1, w2

Plain == [description |-> Unset, aliases |-> <<>>, tags |-> <<>>, pii |-> Unset, deprecated |-> FALSE]

Annotations(policy, table, column) ==
    [policy |-> policy, table |-> table, columns |-> [c \in {email} |-> column]]

Pii == [Plain EXCEPT !.description = w1, !.pii = [enabled |-> TRUE]]

\* The second version renames the aliases and drops the tag of the owner.
Version1(policy) ==
    Annotations(policy, [Plain EXCEPT !.aliases = <<w1, w2>>, !.tags = [k \in {"contains_pii"} |-> w1]], Pii)
Version2(policy) ==
    Annotations(policy, [Plain EXCEPT !.aliases = <<w2>>, !.description = w2, !.deprecated = TRUE], Plain)
Undeclared(policy) ==
    Annotations(policy, [Plain EXCEPT !.tags = [k \in {"contains_pii", "team"} |-> w1]], Plain)

Access(mode, onDrift, revoke, declared) ==
    [mode |-> mode, onDrift |-> onDrift, revoke |-> revoke, grants |-> declared,
     filters |-> <<[function |-> w1, columns |-> {email}]>>,
     masks |-> <<>>]

Masked(a, column) ==
    [a EXCEPT !.filters = <<>>,
              !.masks = <<[column |-> column, function |-> w2, using |-> {}]>>]

Reconcile(mode) == [Access(mode, "reconcile", TRUE, <<reader, writer>>) EXCEPT !.filters = <<>>]

Request(kind, annotations, access, force) ==
    [kind |-> kind, operations |-> TRUE, unity |-> TRUE,
     annotations |-> annotations, access |-> access, force |-> force]

Metastore(q) == [q EXCEPT !.unity = FALSE]

MCRequests ==
    {Metastore(Request("annotations", Version1("warn"), Unset, FALSE)),
     Metastore(Request("annotations", Version1("fail"), Unset, FALSE)),
     Metastore(Request("access", Unset, Access("apply", "warn", FALSE, <<reader>>), FALSE)),
     Request("governance", Version1("warn"), Unset, FALSE),
     Request("ingest", Undeclared("warn"), Unset, FALSE),
     Request("annotations", Version1("fail"), Unset, FALSE),
     Request("annotations", Version2("fail"), Unset, FALSE),
     Request("annotations", Undeclared("warn"), Unset, FALSE),
     Request("ingest", Version2("ignore"), Unset, FALSE),
     Request("governance", Unset, Unset, FALSE),
     Request("access", Unset, Unset, FALSE),
     Request("validate_access", Unset, Access("apply", "warn", TRUE, <<reader>>), FALSE),
     Request("validate_access", Unset, Masked(Access("apply", "fail", TRUE, <<reader>>), secret), FALSE),
     Request("access", Unset, Masked(Access("apply", "warn", TRUE, <<reader>>), secret), TRUE),
     Request("access", Unset, Access("apply", "warn", FALSE, <<reader>>), FALSE),
     Request("access", Unset, Masked(Access("apply", "fail", TRUE, <<reader>>), email), TRUE)}
    \cup {Request("access", Unset, Reconcile(mode), force) :
            mode \in {"apply", "validate_only", "ignore"}, force \in BOOLEAN}
    \cup {Request("access", Unset, Masked(Access("apply", onDrift, FALSE, <<writer>>), email), FALSE) :
            onDrift \in {"fail", "warn"}}

MCInitialGrants == {{}, {legacy}, {reader, legacy}}

Rivals == {Request("annotations", Version2("fail"), Unset, FALSE),
           Request("access", Unset, Reconcile("apply"), TRUE)}

\* Two calls of the same kind with the same contract, or one against a rival.
MCSchedules ==
    {s \in [Calls -> MCRequests] :
        /\ \A c, d \in Calls : OnAccess(s[c]) <=> OnAccess(s[d])
        /\ (\A c, d \in Calls : s[c] = s[d]) \/ \E c \in Calls : s[c] \in Rivals}

Symmetry == Permutations(Calls)
=============================================================================
