---------------------------- MODULE MCTaskExecution ----------------------------
(* Plans and instances for model checking TaskExecution. *)
EXTENDS TaskExecution, TLC

CONSTANTS p1, p2

Mutation == [mutating |-> TRUE, idempotent |-> FALSE, templated |-> FALSE,
             governance |-> "allowed", runWhen |-> "success", deps |-> {}]

\* A mutation, then a repeatable file creation that depends on it.
PairPlan == <<Mutation, [Mutation EXCEPT !.idempotent = TRUE, !.templated = TRUE, !.deps = {1}]>>

\* The same, and a corrective step to append that runs whatever happened before.
RepairPlan == Append(PairPlan, [Mutation EXCEPT !.mutating = FALSE, !.runWhen = "always", !.deps = {2}])

\* A read that may fail, and a mutation that needs approval whatever it gave ...
ApprovalPair ==
  <<[Mutation EXCEPT !.mutating = FALSE],
    [Mutation EXCEPT !.governance = "approval_required", !.runWhen = "always", !.deps = {1}]>>

\* ... and a last step that governance blocks.
ApprovalPlan == Append(ApprovalPair, [Mutation EXCEPT !.governance = "blocked", !.deps = {2}])

Symmetry == Permutations(Proc)
================================================================================
