---------------------------- MODULE RecoveryAdvice ----------------------------
(***************************************************************************)
(* assess_recovery() of runtime/recovery.py: what an operator is told about *)
(* a frame that was left behind, from taskframe.json alone.  It is asked    *)
(* here about every frame the processes of ApprovalStore can leave.         *)
(*                                                                         *)
(* X_Faulty is a plausible bug in X, as in Orchestrator.                     *)
(***************************************************************************)
EXTENDS ApprovalStore

CONSTANT Circumstances  \* what else the assessment finds; see Circumstance

Categories == { "business_validation_failure", "external_auth_failure", "profile_policy_block",
                "runtime_store_integrity_issue", "tool_execution_failure", "unknown_failure" }

\* The manifest file, the profile, the store, the failed step with its retry policy and the
\* outputs of the steps before it, and build_failure_summary(), are outside of the model.
Circumstance ==
    [ manifest_loads : BOOLEAN, activation_blocked : BOOLEAN, store_ok : BOOLEAN,
      failure_category : Categories, validation_failed : BOOLEAN,
      step : {"unknown", "validate", "other"}, retry_allowed : BOOLEAN,
      previous_outputs_present : BOOLEAN ]

ASSUME RecoveryAdviceAssumption == Circumstances \subseteq Circumstance

\* What _assess_side_effect_risk() says of one action.
EffectOf(f, a) ==
    IF f.action[a] = "EXECUTED" \/ a \in f.executed THEN "executed"
    ELSE IF f.action[a] \in InFlight THEN "staged"
    ELSE "unknown"

\* _assess_side_effect_risk(): an executed action outweighs a staged one, and that one an
\* action whose effect is not known.
SideEffectRisk(f) ==
    LET effects == {EffectOf(f, a) : a \in Action}
    IN  IF "executed" \in effects THEN "executed"
        ELSE IF "staged" \in effects THEN "staged"
        ELSE IF "unknown" \in effects THEN "unknown"
        ELSE "none"

\* Only the actions that are still to be executed are compared.
DuplicateSideEffectRisk_Faulty(f) ==
    \E a \in Action : f.action[a] = "APPROVED" /\ Duplicates(f, a) # {}

\* _duplicate_side_effect_risk(): an action that is approved, or has been executed, has a
\* duplicate (which may be itself), or anything was executed at all.
DuplicateSideEffectRisk(f) ==
    \/ \E a \in Action : /\ f.action[a] \in {"APPROVED", "EXECUTING", "EXECUTED"}
                         /\ Duplicates(f, a) # {}
    \/ f.executed # {}

\* _can_resume()
CanResume(f, c) ==
    /\ ~c.activation_blocked
    /\ c.store_ok
    /\ ~DuplicateSideEffectRisk(f)
    /\ SideEffectRisk(f) # "unknown"
    /\ c.step # "unknown"
    /\ c.previous_outputs_present

\* _can_retry()
CanRetry(f, c) ==
    /\ c.step = "other"
    /\ SideEffectRisk(f) = "none"
    /\ c.failure_category # "business_validation_failure"
    /\ c.retry_allowed

\* assess_recovery(), the frame in the states ApprovalStore knows.
AssessRecovery(f, c) ==
    IF ~c.manifest_loads \/ SideEffectRisk(f) = "unknown" THEN "not_recoverable"
    ELSE IF \/ c.validation_failed \/ f.state = "FAILED_VALIDATION"
            \/ c.failure_category = "business_validation_failure"
         THEN "manual_review_required"
    ELSE IF c.failure_category \in {"external_auth_failure", "profile_policy_block"} THEN "blocked"
    ELSE IF c.failure_category = "runtime_store_integrity_issue" \/ ~c.store_ok
         THEN "manual_review_required"
    ELSE IF f.state \in {"RUNNING", "WAITING_FOR_EXECUTE"}
         THEN IF CanResume(f, c) THEN "resumable" ELSE "manual_review_required"
    ELSE IF f.state = "FAILED_EXECUTION"
         THEN IF CanRetry(f, c) THEN "retryable"
              ELSE IF SideEffectRisk(f) = "executed" THEN "blocked"
              ELSE "manual_review_required"
    ELSE "not_recoverable"

\* An operator who asks between two commands is never told to resume or to retry a frame
\* one of whose tools was called live, be the call recorded in the action, in
\* executed_actions alone (the UI), or as a failure that may have had its effect.  Only a
\* crash that lost the record of the call deceives the assessment.  For one operator.
AdviceIsSafe ==
    (crashes = 0 /\ \A o \in Operator : Idle(o)) =>
        \A c \in Circumstances :
            AssessRecovery(disk, c) \in {"resumable", "retryable"} => called = {}
=============================================================================
