-------------------------- MODULE MCExecutionWindows --------------------------
(***************************************************************************)
(* Instances of ExecutionWindows for TLC.                                  *)
(***************************************************************************)
EXTENDS ExecutionWindows, TLC

CONSTANT k1

Plain == [kind |-> "plain", watermarked |-> TRUE, stopOnFailure |-> TRUE, key |-> NoKey,
          policy |-> "always_run", start |-> None, end |-> None, every |-> Second, list |-> <<>>]

Catchup == [Plain EXCEPT !.kind = "catchup", !.end = MaxTime]

Backfill(from, until, step) ==
    [Plain EXCEPT !.kind = "window", !.watermarked = FALSE,
                  !.start = from, !.end = until, !.every = step]

Keyed(p, policy) == [p EXCEPT !.key = k1, !.policy = policy]

\* Ordinary runs and catchups of one incremental contract.
IncrementalPlans == {Plain, Catchup, [Catchup EXCEPT !.start = 1]}

\* Retries of a backfill, with and without stop_on_failure.
RetriedPlans ==
    {Keyed([Backfill(0, 4, 2) EXCEPT !.stopOnFailure = stop], policy) :
        stop \in BOOLEAN, policy \in {"skip_if_success", "fail_if_success"}}

\* Retries of a list of windows without labels.
ListPlans ==
    {Keyed([Backfill(0, 4, 2) EXCEPT !.kind = "explicit", !.list = <<<<0, 3>>, <<3, 4>>>>],
           "skip_if_success")}

\* Executions of an incremental contract that overlap, and that follow each
\* other, and the attempts of a backfill, which may overlap, too.
AllContracts ==
    {[plans |-> IncrementalPlans, overlap |-> TRUE,
      faults |-> {"error", "late_error", "control", "crash"}],
     [plans |-> IncrementalPlans, overlap |-> FALSE, faults |-> {"error", "late_error", "crash"}],
     [plans |-> ListPlans, overlap |-> FALSE, faults |-> {"error", "late_error", "crash"}],
     [plans |-> RetriedPlans, overlap |-> FALSE, faults |-> {"error", "late_error", "crash"}],
     [plans |-> RetriedPlans, overlap |-> TRUE, faults |-> {"error", "control"}]}

Symmetry == Permutations(Executions)
=============================================================================
