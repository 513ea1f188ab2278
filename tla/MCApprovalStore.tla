--------------------------- MODULE MCApprovalStore ---------------------------
(***************************************************************************)
(* Instances of ApprovalStore for TLC: two staged actions, under contracts *)
(* shaped after the shipped manifests that stage side effects.             *)
(***************************************************************************)
EXTENDS RecoveryAdvice, TLC

Contract == [ effect |-> [a \in 1..NumActions |-> a],
              allow_pending_approval |-> TRUE,
              success_outputs |-> {}, acceptable_empty_outputs |-> {},
              success_pending_actions |-> {},
              success_executed_actions |-> {},
              required_state |-> "COMPLETED" ]

\* Every staged action must have been executed.
AllExecuted == [Contract EXCEPT !.success_executed_actions = 1..NumActions]

\* The two actions perform the same business effect, and one is enough.
SameEffect == [Contract EXCEPT !.effect = [a \in 1..NumActions |-> 1],
                               !.success_executed_actions = {1}]

\* The run is a success once the actions are staged.
StagedOnly == [Contract EXCEPT !.allow_pending_approval = FALSE,
                               !.success_pending_actions = 1..NumActions,
                               !.required_state = "WAITING_FOR_EXECUTE"]

MCManifests == {AllExecuted, SameEffect, StagedOnly}

OneManifest == {AllExecuted}

\* Nothing but the frame stands in the way of a resumption or a retry; and one thing does.
Favourable == [ manifest_loads |-> TRUE, activation_blocked |-> FALSE, store_ok |-> TRUE,
                failure_category |-> "tool_execution_failure", validation_failed |-> FALSE,
                step |-> "other", retry_allowed |-> TRUE, previous_outputs_present |-> TRUE ]

MCCircumstances ==
    { Favourable, [Favourable EXCEPT !.store_ok = FALSE],
      [Favourable EXCEPT !.failure_category = "external_auth_failure"],
      [Favourable EXCEPT !.previous_outputs_present = FALSE] }

Operators == Permutations(Operator)
=============================================================================
