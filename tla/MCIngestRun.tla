----------------------------- MODULE MCIngestRun -----------------------------
(***************************************************************************)
(* Instances of IngestRun for TLC: the plans the runs are started with and *)
(* the faults of each configuration.                                       *)
(***************************************************************************)
EXTENDS IngestRun, TLC

CONSTANT k1

Plan(useLock, key, policy, onQualityFail) ==
    [lock |-> useLock, key |-> key, policy |-> policy, quality |-> onQualityFail]

\* One contract whose runs take the lock, with and without an idempotency key.
LockedPlans == {Plan(TRUE, NoKey, "always_run", "quarantine"),
                Plan(TRUE, k1, "skip_if_success", "warn")}

KeyedPlans == {Plan(TRUE, k1, "skip_if_success", "quarantine")}

PlainPlans == {Plan(TRUE, NoKey, "always_run", "quarantine")}

\* Guarded and locked runs meet runs that are neither.
MixedPlans == {Plan(TRUE, k1, "fail_if_success", "fail"),
               Plan(FALSE, NoKey, "always_run", "quarantine")}

Symmetry == Permutations(Runs)
=============================================================================
