----------------------------- MODULE MCStreamRun -----------------------------
(***************************************************************************)
(* Instances of StreamRun for TLC: the plans streams are started with.     *)
(***************************************************************************)
EXTENDS StreamRun, TLC

CONSTANT k1

StreamPlan(useLock, key, policy) == [lock |-> useLock, key |-> key, policy |-> policy]

\* Retries of one job instance.
RetriedPlans == {StreamPlan(TRUE, k1, "skip_if_success"), StreamPlan(TRUE, k1, "fail_if_success")}

\* With and without a key and a lock.
MixedPlans == {StreamPlan(TRUE, k1, "skip_if_success"), StreamPlan(FALSE, NoKey, "always_run")}

\* A serverless job and its retries, whose driver does not see what its
\* callback did, and classic clusters where everything else goes wrong.
AllDeployments ==
    {[plans |-> RetriedPlans, seesCallback |-> FALSE, faults |-> {"error", "late_error", "crash"}],
     [plans |-> MixedPlans, seesCallback |-> TRUE, faults |-> {"late_error", "control", "slow"}],
     [plans |-> MixedPlans, seesCallback |-> TRUE, faults |-> {"interrupt", "crash", "slow"}]}
=============================================================================
