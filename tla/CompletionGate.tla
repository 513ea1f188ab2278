--------------------------- MODULE CompletionGate ---------------------------
(***************************************************************************)
(* The completion gate (runtime/completion_gate.py) as pure operators: the *)
(* final state evaluate_completion() decides for a frame under a manifest's *)
(* completion contract, and what apply_completion_result() then does.       *)
(*                                                                         *)
(* m is the manifest, f the part of the frame the gate reads:               *)
(*   f.status, f.output, f.action   functions on the steps of the manifest  *)
(*   f.badValidation   some entry of frame.validations has ok = False       *)
(*   f.frameError      some entry of frame.errors names no step             *)
(* An error that names a step is active exactly while the step is FAILED,   *)
(* so it never changes the verdict of a rule that also counts the failed    *)
(* steps; only the errors without a step are kept.                          *)
(***************************************************************************)
EXTENDS TaskFrame

\* required_state as the manifests write it; "" when absent.
RequiredStates ==
    {"", "COMPLETED", "COMPLETED_NO_DATA", "FAILED_COMPLETION", "WAITING_FOR_EXECUTE"}

StepsOf(f, statuses) == {s \in DOMAIN f.status : f.status[s] \in statuses}

\* The actions of the frame with one of these statuses, by the step (and so
\* the output alias) they come from.
ActionsOf(f, statuses) == {s \in DOMAIN f.action : f.action[s] \in statuses}

OutputsOf(f, values) == {s \in DOMAIN f.output : f.output[s] \in values}

RequiredOr(m, default) == IF m.required_state = "" THEN default ELSE m.required_state

\* Rules 1 and 2: a failed validation, a failed step or an active error.
HasFailure(f) ==
    f.badValidation \/ f.frameError \/ StepsOf(f, {"FAILED"}) # {}

FailureVerdict(f) ==
    IF ~f.frameError /\ StepsOf(f, {"FAILED"}) = {}
    THEN "FAILED_VALIDATION"
    ELSE "FAILED_COMPLETION"

\* A plausible bug: the contract's state is used although approvals are allowed.
PendingVerdict_Faulty(m, f) == RequiredOr(m, "WAITING_FOR_EXECUTE")

\* Rule 3: _evaluate_pending_approval(), when some action is in flight.
PendingVerdict(m, f) ==
    IF m.allow_pending_approval THEN "WAITING_FOR_EXECUTE"
    ELSE IF /\ m.success_pending_actions # {}
            /\ m.success_pending_actions \subseteq ActionsOf(f, InFlight)
         THEN RequiredOr(m, "WAITING_FOR_EXECUTE")
         ELSE "FAILED_COMPLETION"

\* Rules 4 and 5: a rejected action the contract cannot do without, or an
\* action the contract names that was never staged or never executed.
ActionsUnmet(m, f) ==
    \/ ActionsOf(f, {"REJECTED"}) # {} /\ m.success_executed_actions = {}
    \/ ~ (m.success_pending_actions \subseteq ActionsOf(f, PENDING_ACTION_STATUSES))
    \/ ~ (m.success_executed_actions \subseteq ActionsOf(f, {"EXECUTED"}))

\* Rule 7: an output that is missing, or empty where that is not acceptable.
OutputsUnmet(m, f) ==
    ~ (m.success_outputs \subseteq
          OutputsOf(f, {"value"}) \cup
          (OutputsOf(f, {"empty"}) \cap m.acceptable_empty_outputs))

\* Rules 8 to 10: every criterion is met.
SuccessVerdict(m, f) ==
    IF m.success_outputs \cup m.success_pending_actions
                         \cup m.success_executed_actions = {}
    THEN RequiredOr(m, "COMPLETED_NO_DATA")
    ELSE IF m.required_state \notin {"", "COMPLETED", "COMPLETED_NO_DATA", "FAILED_COMPLETION"}
    THEN "FAILED_COMPLETION"
    ELSE IF m.success_outputs # {} /\ m.success_outputs \subseteq OutputsOf(f, {"empty"})
    THEN RequiredOr(m, "COMPLETED_NO_DATA")
    ELSE RequiredOr(m, "COMPLETED")

\* evaluate_completion(): the final_state of the result.
EvaluateCompletion(m, f) ==
    IF HasFailure(f) THEN FailureVerdict(f)
    ELSE IF ActionsOf(f, InFlight) # {} THEN PendingVerdict(m, f)
    ELSE IF ActionsUnmet(m, f) \/ OutputsUnmet(m, f) THEN "FAILED_COMPLETION"
    ELSE SuccessVerdict(m, f)

\* apply_completion_result() moves a frame in state `from` to `final`; when this
\* does not hold it raises CompletionGateError and leaves the state as it was.
Applicable(from, final) ==
    \/ final = from
    \/ CanTransition(from, final)
    \/ final \in {"FAILED_COMPLETION", "FAILED_VALIDATION"}
=============================================================================
