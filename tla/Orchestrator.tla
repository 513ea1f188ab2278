---------------------------- MODULE Orchestrator ----------------------------
(***************************************************************************)
(* One TaskFrame under runtime/orchestrator.py: prepare_frame(),            *)
(* run_until_blocked() with the attempts, retries, timeouts and rollbacks   *)
(* of run_next_step(), the approval operations on the staged actions,       *)
(* execute_approved_pending_actions() and verify_frame().                   *)
(*                                                                         *)
(* The frame is in memory and one call runs at a time; pc says which call   *)
(* is running and where it is.  The steps of the manifest are 1..NumSteps;  *)
(* the output alias of a step and the action it stages are named by it.     *)
(*                                                                         *)
(* X_Faulty is a plausible bug in X.  Nothing here uses it: putting it in    *)
(* X's place shows that a property can fail.                                *)
(***************************************************************************)
EXTENDS Naturals, CompletionGate

CONSTANTS
    NumSteps,       \* the number of steps of a manifest
    MaxAttempts,    \* the largest max_attempts of a retry policy
    Manifests       \* the manifests frames are created from

Step == 1..NumSteps

StepKinds == {"tool", "pending", "prepare", "validate", "validate_required_inputs"}

\* The classes of failure retry_policy.py tells apart.
Tags == {"transient", "unknown", "policy", "validation", "timeout"}

\* What the code reads of a manifest.  "tool" stands for every kind whose step
\* just runs (tool, llm, memory, inspection, cleanup, maintenance, approval);
\* "pending" and "prepare" steps stage an action, and a "prepare" tool also
\* publishes it as the output of the step.  retry_on is the set of failure classes the
\* step's retry_on covers and its do_not_retry_on does not.  effect gives two
\* steps the same value when recovery.py takes their actions for the same one.
Manifest ==
    [ kind : [Step -> StepKinds],
      max_attempts : [Step -> 1..MaxAttempts],
      retry_on : [Step -> SUBSET Tags],
      effect : [Step -> Step],
      when : SUBSET Step,
      timeout_seconds : SUBSET Step,
      validations : BOOLEAN,
      continue_after_pending : BOOLEAN,
      allow_pending_approval : BOOLEAN,
      success_outputs : SUBSET Step,
      acceptable_empty_outputs : SUBSET Step,
      success_pending_actions : SUBSET Step,
      success_executed_actions : SUBSET Step,
      required_state : RequiredStates ]

ASSUME OrchestratorAssumption ==
    /\ NumSteps \in Nat \ {0}
    /\ MaxAttempts \in Nat \ {0}
    /\ Manifests \subseteq Manifest

VARIABLES
    manifest,       \* the manifest of the frame
    state,          \* frame.state
    current,        \* frame.current_step_id (0: None)
    status,         \* step.status of every step
    attempts,       \* step.attempts of every step
    output,         \* frame.outputs by alias
    action,         \* frame.pending_actions by alias, NONE when not staged
    badValidation,  \* some record of frame.validations has ok = False
    frameError,     \* some record of frame.errors names no step
    pc,             \* the call that is running, and where it is
    at,             \* the step being attempted
    snapshot,       \* what _snapshot_attempt_state() saved before the attempt
    tag,            \* the class of the attempt's failure, or "none"
    todo,           \* the approved actions execute_approved has still to run
    live,           \* whether that call runs in live mode
    raised,         \* verify_frame() has raised
    calls           \* the live tool calls made for every action

manifestVars == <<manifest, calls>>
frameVars == <<state, current, status, attempts, output, action,
               badValidation, frameError>>
callVars == <<pc, at, snapshot, tag, todo, live, raised>>
vars == <<manifestVars, frameVars, callVars>>

NoSnapshot == [current |-> 0,
               output |-> [s \in Step |-> "absent"],
               action |-> [s \in Step |-> "NONE"],
               badValidation |-> FALSE]

\* create_taskframe()
Init ==
    /\ manifest \in Manifests
    /\ state = "CREATED"
    /\ current = 1
    /\ status = [s \in Step |-> "PENDING"]
    /\ attempts = [s \in Step |-> 0]
    /\ output = [s \in Step |-> "absent"]
    /\ action = [s \in Step |-> "NONE"]
    /\ badValidation = FALSE
    /\ frameError = FALSE
    /\ pc = "created"
    /\ at = 1
    /\ snapshot = NoSnapshot
    /\ tag = "none"
    /\ todo = {}
    /\ live = FALSE
    /\ raised = FALSE
    /\ calls = [s \in Step |-> 0]

-----------------------------------------------------------------------------
(* Helpers *)

Least(S) == CHOOSE s \in S : \A t \in S : s <= t

LeastOrNone(S) == IF S = {} THEN 0 ELSE Least(S)

PendingSteps == {s \in Step : status[s] = "PENDING"}

\* _advance_current_step_id()
NextPendingAfter(s) == LeastOrNone({t \in PendingSteps : t > s})

StateAfterStep_Faulty(s, st) == st

\* run_next_step() moves on to VERIFYING when nothing is left to run.
StateAfterStep(s, st) ==
    IF PendingSteps \ {s} = {} /\ st = "RUNNING" THEN "VERIFYING" ELSE st

\* should_retry_step() for an attempt of step s that failed with class t
Retryable(s, t) ==
    /\ manifest.kind[s] # "validate"
    /\ t \notin {"policy", "validation"}
    /\ t \in manifest.retry_on[s]
    /\ attempts[s] < manifest.max_attempts[s]

FailedState_KeepsRunning(s, t) == "RUNNING"

FailedState(s, t) ==
    IF manifest.kind[s] \in {"validate", "validate_required_inputs"} \/ t = "validation"
    THEN "FAILED_VALIDATION"
    ELSE "FAILED_EXECUTION"

\* The failures a step of each kind reports.  A failed required-inputs check
\* comes back without error info, so it is classified by its message: "unknown".
FailureTags(kind) ==
    CASE kind = "validate" -> {"validation"}
      [] kind = "validate_required_inputs" -> {"unknown"}
      [] OTHER -> {"transient", "unknown", "policy"}

-----------------------------------------------------------------------------
(* prepare_frame() and the loop of run_until_blocked() *)

Prepare ==
    /\ pc = "created"
    /\ state = "CREATED"
    /\ state' = "READY"         \* through VALIDATING
    /\ pc' = "loop"
    /\ UNCHANGED <<manifestVars, current, status, attempts, output, action,
                   badValidation, frameError, at, snapshot, tag, todo, live, raised>>

Continues_Faulty == state \in {"READY", "RUNNING"} /\ PendingSteps # {}

\* The loop runs another step.
Continues ==
    /\ state \in {"READY", "RUNNING", "WAITING_FOR_EXECUTE"}
    /\ PendingSteps # {}
    /\ state = "WAITING_FOR_EXECUTE" => manifest.continue_after_pending

Entered == IF state = "READY" THEN "RUNNING" ELSE state

\* The loop ends; the frame is verified unless it has failed.
LeaveLoop ==
    /\ pc = "loop"
    /\ ~Continues
    /\ pc' = IF state \in {"VERIFYING", "WAITING_FOR_EXECUTE"} THEN "verify" ELSE "idle"
    /\ UNCHANGED <<manifestVars, frameVars, at, snapshot, tag, todo, live, raised>>

\* The when: condition of the step cannot be evaluated.
ConditionError ==
    /\ pc = "loop"
    /\ Continues
    /\ Least(PendingSteps) \in manifest.when
    /\ status' = [status EXCEPT ![Least(PendingSteps)] = "FAILED"]
    /\ state' = "FAILED_EXECUTION"
    /\ UNCHANGED <<manifestVars, current, attempts, output, action,
                   badValidation, frameError, callVars>>

\* The when: condition of the step is false.
SkipStep ==
    /\ pc = "loop"
    /\ Continues
    /\ LET s == Least(PendingSteps) IN
         /\ s \in manifest.when
         /\ status' = [status EXCEPT ![s] = "SKIPPED"]
         /\ current' = NextPendingAfter(s)
         /\ state' = StateAfterStep(s, Entered)
    /\ UNCHANGED <<manifestVars, attempts, output, action,
                   badValidation, frameError, callVars>>

-----------------------------------------------------------------------------
(* The attempts of a step *)

TakeSnapshot_Faulty == [current |-> current, output |-> output,
                        action |-> [s \in Step |-> "NONE"],
                        badValidation |-> badValidation]

\* _snapshot_attempt_state().  The frame's state and the step's status are
\* saved too, and overwritten right after every restore.
TakeSnapshot == [current |-> current, output |-> output, action |-> action,
                 badValidation |-> badValidation]

CountAttempt_Faulty(s) == attempts

CountAttempt(s) == [attempts EXCEPT ![s] = @ + 1]

StartAttempt(s) ==
    /\ attempts[s] < manifest.max_attempts[s]
    /\ attempts' = CountAttempt(s)
    /\ status' = [status EXCEPT ![s] = "RUNNING"]
    /\ at' = s
    /\ snapshot' = TakeSnapshot
    /\ pc' = "attempt"
    /\ UNCHANGED <<manifestVars, current, output, action, badValidation,
                   frameError, tag, todo, live, raised>>

\* A condition, when the step has one, holds.
FirstAttempt ==
    /\ pc = "loop"
    /\ Continues
    /\ state' = Entered
    /\ StartAttempt(Least(PendingSteps))

\* `continue` in the attempt loop: the condition is not evaluated again.
NextAttempt ==
    /\ pc = "retry"
    /\ UNCHANGED state
    /\ StartAttempt(at)

\* _execute_step_once(): the step does its work.
StepCompletes ==
    /\ pc = "attempt"
    /\ manifest.kind[at] \in {"tool", "validate", "validate_required_inputs"}
    /\ status' = [status EXCEPT ![at] = "COMPLETED"]
    /\ IF manifest.kind[at] = "tool"
       THEN \E v \in {"empty", "value"} : output' = [output EXCEPT ![at] = v]
       ELSE UNCHANGED output
    /\ tag' = "none"
    /\ pc' = "settle"
    /\ UNCHANGED <<manifestVars, state, current, attempts, action, badValidation,
                   frameError, at, snapshot, todo, live, raised>>

\* ToolRunner.run_step() stages the side effect instead of performing it.
StepStages ==
    /\ pc = "attempt"
    /\ manifest.kind[at] \in {"pending", "prepare"}
    /\ status' = [status EXCEPT ![at] = "STAGED"]
    /\ action' = [action EXCEPT ![at] = "PENDING_APPROVAL"]
    /\ output' = IF manifest.kind[at] = "prepare"
                 THEN [output EXCEPT ![at] = "value"] ELSE output
    /\ state' = IF state = "RUNNING" THEN "WAITING_FOR_EXECUTE" ELSE state
    /\ tag' = "none"
    /\ pc' = "settle"
    /\ UNCHANGED <<manifestVars, current, attempts, badValidation, frameError,
                   at, snapshot, todo, live, raised>>

\* The step fails.  A required-inputs check always leaves its failing record
\* in frame.validations, a validate step only when the rule could be run.
StepFails ==
    /\ pc = "attempt"
    /\ tag' \in FailureTags(manifest.kind[at])
    /\ status' = [status EXCEPT ![at] = "FAILED"]
    /\ state' = FailedState(at, "unknown")
    /\ badValidation' \in CASE manifest.kind[at] = "validate" -> {badValidation, TRUE}
                            [] manifest.kind[at] = "validate_required_inputs" -> {TRUE}
                            [] OTHER -> {badValidation}
    /\ pc' = "settle"
    /\ UNCHANGED <<manifestVars, current, attempts, output, action, frameError,
                   at, snapshot, todo, live, raised>>

\* The attempt is over and counts as a success.
AttemptSucceeded ==
    /\ pc = "settle"
    /\ status[at] \in SettledStatuses
    /\ current' = NextPendingAfter(at)
    /\ state' = StateAfterStep(at, state)
    /\ pc' = "loop"
    /\ UNCHANGED <<manifestVars, status, attempts, output, action, badValidation,
                   frameError, at, snapshot, tag, todo, live, raised>>

\* The attempt counts as failed with class t: the step is retried, or the
\* frame fails.
RetryOrFail(t) ==
    IF Retryable(at, t)
    THEN /\ status' = [status EXCEPT ![at] = "PENDING"]
         /\ state' = "RUNNING"
         /\ pc' = "retry"
    ELSE /\ status' = [status EXCEPT ![at] = "FAILED"]
         /\ state' = FailedState(at, t)
         /\ pc' = "loop"

AttemptFailed ==
    /\ pc = "settle"
    /\ status[at] = "FAILED"
    /\ RetryOrFail(tag)
    /\ UNCHANGED <<manifestVars, current, attempts, output, action, badValidation,
                   frameError, at, snapshot, tag, todo, live, raised>>

Restored_Faulty == [snapshot EXCEPT !.action = action]

\* _restore_attempt_state()
Restored == snapshot

\* The time is checked after the step has run, whatever its outcome was; what
\* the attempt did to the frame is undone before it counts as failed.
AttemptTimedOut ==
    /\ pc = "settle"
    /\ at \in manifest.timeout_seconds
    /\ current' = Restored.current
    /\ output' = Restored.output
    /\ action' = Restored.action
    /\ badValidation' = Restored.badValidation
    /\ RetryOrFail("timeout")
    /\ UNCHANGED <<manifestVars, attempts, frameError, at, snapshot, tag, todo,
                   live, raised>>

-----------------------------------------------------------------------------
(* verify_frame() *)

Contents(bad) == [status |-> status, output |-> output, action |-> action,
                  badValidation |-> bad, frameError |-> frameError]

\* The manifest's own validations run, then the gate decides.
Verify ==
    /\ pc = "verify"
    /\ \E ok \in (IF manifest.validations THEN BOOLEAN ELSE {TRUE}) :
         LET final == EvaluateCompletion(manifest, Contents(badValidation \/ ~ok)) IN
           /\ badValidation' = (badValidation \/ ~ok)
           /\ IF Applicable(state, final)
              THEN state' = final /\ UNCHANGED raised
              ELSE raised' = TRUE /\ UNCHANGED state
    /\ pc' = "idle"
    /\ UNCHANGED <<manifestVars, current, status, attempts, output, action,
                   frameError, at, snapshot, tag, todo, live>>

\* A validation rule raises; the records before it stay in the frame.
VerifyRaises ==
    /\ pc = "verify"
    /\ manifest.validations
    /\ badValidation' \in {badValidation, TRUE}
    /\ raised' = TRUE
    /\ pc' = "idle"
    /\ UNCHANGED <<manifestVars, state, current, status, attempts, output, action,
                   frameError, at, snapshot, tag, todo, live>>

-----------------------------------------------------------------------------
(* The approval operations *)

Approve(s) ==
    /\ pc = "idle"
    /\ action[s] = "PENDING_APPROVAL"
    /\ action' = [action EXCEPT ![s] = "APPROVED"]
    /\ UNCHANGED <<manifestVars, state, current, status, attempts, output,
                   badValidation, frameError, callVars>>

Transitioned_Faulty(to) == to

\* transition_state(): the new state, or the old one when it raises.
Transitioned(to) == IF CanTransition(state, to) THEN to ELSE state

\* The action is rejected and the error recorded before the transition that
\* may raise.
Reject(s) ==
    /\ pc = "idle"
    /\ action[s] = "PENDING_APPROVAL"
    /\ action' = [action EXCEPT ![s] = "REJECTED"]
    /\ frameError' = TRUE
    /\ state' = Transitioned("FAILED_COMPLETION")
    /\ UNCHANGED <<manifestVars, current, status, attempts, output,
                   badValidation, callVars>>

ApprovedActions_Faulty == {s \in Step : action[s] \in {"PENDING_APPROVAL", "APPROVED"}}

ApprovedActions == {s \in Step : action[s] = "APPROVED"}

\* execute_approved_pending_actions(), dry or live
StartExecute ==
    /\ pc = "idle"
    /\ state = "WAITING_FOR_EXECUTE"
    /\ ApprovedActions # {}
    /\ live' \in BOOLEAN
    /\ todo' = ApprovedActions
    /\ state' = "EXECUTING_PENDING"
    /\ pc' = "execute"
    /\ UNCHANGED <<manifestVars, current, status, attempts, output, action,
                   badValidation, frameError, at, snapshot, tag, raised>>

Duplicates_Faulty(s) == {t \in Step : action[t] = "EXECUTED" /\ t = s}

\* _find_duplicate_executions(): the effect of s has been executed already.
Duplicates(s) == {t \in Step : /\ action[t] = "EXECUTED"
                               /\ manifest.effect[t] = manifest.effect[s]}

\* The next action of the call; the list is in the order of staging.
Executing(s) == pc = "execute" /\ todo # {} /\ s = Least(todo)

Stop == pc' = "idle" /\ todo' = {} /\ state' = "FAILED_EXECUTION"

\* A guard refuses the action: a duplicate always, and whatever governance,
\* the arguments, the manifest's allowlist or the live guardrail object to.
BlockAction(s) ==
    /\ Executing(s)
    /\ action' = [action EXCEPT ![s] = "FAILED"]
    /\ frameError' = TRUE
    /\ Stop
    /\ UNCHANGED <<manifestVars, current, status, attempts, output,
                   badValidation, at, snapshot, tag, live, raised>>

\* The action's tool returns a result.  In dry-run mode a tool that reports an
\* error is recorded as EXECUTED all the same, and only then stops the call.
ExecuteAction(s) ==
    /\ Executing(s)
    /\ Duplicates(s) = {}
    /\ action' = [action EXCEPT ![s] = "EXECUTED"]
    /\ output' = [output EXCEPT ![s] = "value"]
    /\ calls' = IF live THEN [calls EXCEPT ![s] = @ + 1] ELSE calls
    /\ \/ /\ todo' = todo \ {s}
          /\ UNCHANGED <<state, pc>>
       \/ /\ ~live
          /\ Stop
    /\ UNCHANGED <<manifest, current, status, attempts, badValidation,
                   frameError, at, snapshot, tag, live, raised>>

\* The live tool fails: the call may or may not have been made.
FailLiveAction(s) ==
    /\ Executing(s)
    /\ live
    /\ Duplicates(s) = {}
    /\ action' = [action EXCEPT ![s] = "FAILED"]
    /\ calls' = [calls EXCEPT ![s] = @ + 1]
    /\ frameError' = TRUE
    /\ Stop
    /\ UNCHANGED <<manifest, current, status, attempts, output, badValidation,
                   at, snapshot, tag, live, raised>>

\* Every approved action has been executed: on to verify_frame().
ExecuteDone ==
    /\ pc = "execute"
    /\ todo = {}
    /\ state' = "VERIFYING"
    /\ pc' = "verify"
    /\ UNCHANGED <<manifestVars, current, status, attempts, output, action,
                   badValidation, frameError, at, snapshot, tag, todo, live, raised>>

-----------------------------------------------------------------------------
RunStep == \/ Prepare \/ LeaveLoop \/ ConditionError \/ SkipStep
           \/ FirstAttempt \/ NextAttempt
           \/ StepCompletes \/ StepStages \/ StepFails
           \/ AttemptSucceeded \/ AttemptFailed \/ AttemptTimedOut
           \/ Verify \/ VerifyRaises

ExecuteStep == \/ \E s \in Step : BlockAction(s) \/ ExecuteAction(s) \/ FailLiveAction(s)
               \/ ExecuteDone

OperatorStep == \/ \E s \in Step : Approve(s) \/ Reject(s)
                \/ StartExecute

Next == RunStep \/ ExecuteStep \/ OperatorStep

Spec == Init /\ [][Next]_vars

\* A call that has begun goes on; nobody promises to approve or execute.
FairSpec == Spec /\ WF_vars(RunStep \/ ExecuteStep)

-----------------------------------------------------------------------------
(* Properties *)

\* The type invariant.
TypeOK ==
    /\ manifest \in Manifests
    /\ state \in TASKFRAME_STATES
    /\ current \in Step \cup {0}
    /\ status \in [Step -> STEP_STATUSES]
    /\ attempts \in [Step -> 0..MaxAttempts]
    /\ output \in [Step -> OUTPUT_VALUES]
    /\ action \in [Step -> ACTION_VALUES]
    /\ badValidation \in BOOLEAN
    /\ frameError \in BOOLEAN
    /\ pc \in {"created", "loop", "attempt", "settle", "retry", "verify", "idle", "execute"}
    /\ at \in Step
    /\ snapshot \in [current : Step \cup {0}, output : [Step -> OUTPUT_VALUES],
                     action : [Step -> ACTION_VALUES], badValidation : BOOLEAN]
    /\ tag \in Tags \cup {"none"}
    /\ todo \in SUBSET Step
    /\ live \in BOOLEAN
    /\ raised \in BOOLEAN
    /\ calls \in [Step -> Nat]

InAttempt == pc \in {"attempt", "settle"}

\* An action exists exactly when the step is STAGED, and only a step that went
\* through has an output.
Consistent(s) == /\ action[s] # "NONE" <=> status[s] = "STAGED"
                 /\ output[s] # "absent" => status[s] \in {"COMPLETED", "STAGED"}

\* Rollback of attempts (run_next_step(), _restore_attempt_state()): between two
\* attempts every step is consistent.  A timed-out attempt that staged an action
\* and is retried must not leave an action an operator could approve.
NoTraceOfFailedAttempts == ~InAttempt => \A s \in Step : Consistent(s)

\* No step is started before every earlier step went through, whatever
\* retries, timeouts, skipped steps and pending actions came before.
StepsInOrder ==
    \A s, t \in Step : t < s /\ status[s] # "PENDING" => status[t] \in SettledStatuses

\* A call that comes back without an exception leaves the frame waiting for
\* an approval or in a final state, never RUNNING, VERIFYING or EXECUTING_PENDING.
RestStates ==
    pc = "idle" /\ ~raised => state \in FinalStates \cup {"WAITING_FOR_EXECUTE"}

\* The completion contract asks for a success state while actions wait.
AsksForEarlySuccess(m) ==
    /\ ~m.allow_pending_approval
    /\ m.success_pending_actions # {}
    /\ m.required_state \in SuccessStates

\* The gate lets nothing half done pass: a frame that ends in success has no
\* failed step, validation or error, has executed every action it ever staged
\* (none is in flight, rejected or failed) and every action and output the contract
\* names is there.
CompletedIsSettled ==
    pc = "idle" /\ state \in SuccessStates /\ ~AsksForEarlySuccess(manifest) =>
        /\ ~badValidation /\ ~frameError
        /\ \A s \in Step : status[s] # "FAILED" /\ action[s] \in {"NONE", "EXECUTED"}
        /\ \A s \in manifest.success_executed_actions : action[s] = "EXECUTED"
        /\ \A s \in manifest.success_outputs : output[s] # "absent"

\* With continue_after_pending a frame ends in success only when every step
\* was run or skipped.
CompletedRanEveryStep ==
    pc = "idle" /\ state \in SuccessStates /\ manifest.continue_after_pending =>
        PendingSteps = {}

\* docs/recovery_and_idempotency.md: one business effect is sent to the outside
\* world at most once, whichever of the actions that stand for it are approved,
\* in however many calls, and whatever fails in between.
LiveEffectOnce ==
    \A s, t \in Step :
        /\ calls[s] <= 1
        /\ calls[s] > 0 /\ calls[t] > 0 /\ manifest.effect[s] = manifest.effect[t] => s = t

\* No operation an operator may still call on a finished frame changes its
\* verdict, its outputs or the outside world.
FinalIsFrozen ==
    [][pc = "idle" /\ state \in FinalStates =>
          /\ state' = state
          /\ UNCHANGED <<output, status, calls>>]_vars

\* Every call returns: retries, the step loop and the execution loop end.
CallsEnd == (pc \notin {"created", "idle"}) ~> (pc = "idle")

\* Approvals and live calls as the documents promise them.
Gate == INSTANCE ActionGate WITH Action <- Step, effect <- manifest.effect,
                                 status <- action, calls <- calls

GateSpec == Gate!Spec

-----------------------------------------------------------------------------
(* The inductive invariant *)

\* During an attempt the snapshot is the frame as it is for the other steps, and
\* holds nothing of the step being attempted.
SnapshotIsFaithful ==
    InAttempt =>
        /\ \A s \in Step \ {at} : /\ Consistent(s)
                                  /\ snapshot.action[s] = action[s]
                                  /\ snapshot.output[s] = output[s]
        /\ snapshot.action[at] = "NONE"
        /\ snapshot.output[at] = "absent"

\* What the attempt has done to its own step.
AttemptProgress ==
    /\ pc = "attempt" => action[at] = "NONE" /\ output[at] = "absent"
    /\ pc = "settle" => \/ /\ status[at] = "FAILED"
                           /\ action[at] = "NONE" /\ output[at] = "absent"
                        \/ /\ status[at] \in {"COMPLETED", "STAGED"}
                           /\ action[at] \in {"NONE", "PENDING_APPROVAL"}
                           /\ Consistent(at)
    /\ pc = "retry" => status[at] = "PENDING"

\* Live calls are made only for approved actions, after the run; an action
\* whose live call failed has failed the frame with it.
LiveCalls ==
    /\ pc \in {"created", "loop", "attempt", "settle", "retry"} =>
          \A s \in Step : calls[s] = 0
    /\ pc = "execute" => \A s \in todo : action[s] = "APPROVED"
    /\ \A s \in Step : calls[s] > 0 =>
          \/ action[s] = "EXECUTED"
          \/ action[s] = "FAILED" /\ pc = "idle" /\ state = "FAILED_EXECUTION"

Untroubled(s) == status[s] \in SettledStatuses \cup {"PENDING"}

\* Wherever the run is, it is on the first step that has not gone through: no
\* step after it has begun, and no other step is running or failed.
RunIsOnStep ==
    /\ pc = "created" => PendingSteps = Step
    /\ pc \in {"attempt", "settle", "retry"} =>
          \A s \in Step : /\ s < at => status[s] \in SettledStatuses
                          /\ s > at => status[s] = "PENDING"
    /\ pc = "attempt" => status[at] = "RUNNING"
    /\ pc = "loop" /\ state \in {"READY", "RUNNING", "WAITING_FOR_EXECUTE"} =>
          \A s \in Step : Untroubled(s)

\* The state of the frame where the call is; a frame is RUNNING only while a
\* step is left to run, and VERIFYING in the loop only when none is.
StateFitsCall ==
    /\ pc = "loop" =>
          /\ state \in {"READY", "RUNNING", "WAITING_FOR_EXECUTE", "VERIFYING",
                        "FAILED_EXECUTION", "FAILED_VALIDATION"}
          /\ state \in {"READY", "RUNNING"} => PendingSteps # {}
          /\ state = "VERIFYING" => PendingSteps = {}
    /\ pc \in {"attempt", "retry"} \/ (pc = "settle" /\ status[at] # "FAILED") =>
          state \in {"RUNNING", "WAITING_FOR_EXECUTE"}
    /\ pc = "verify" => state \in {"VERIFYING", "WAITING_FOR_EXECUTE"}
    /\ pc = "execute" => state = "EXECUTING_PENDING"

\* What the gate is told: a rejected or failed action has left an error, and
\* under continue_after_pending the loop has left no step behind.
GateIsInformed ==
    /\ \A s \in Step : action[s] \in {"REJECTED", "FAILED"} => frameError
    /\ /\ pc \in {"verify", "execute", "idle"}
       /\ state \notin FailureStates
       /\ manifest.continue_after_pending
       => PendingSteps = {}

\* The strengthening of the safety invariants that every step of
\* run_next_step(), the approvals and the executions preserves.
IndInv == /\ TypeOK
          /\ NoTraceOfFailedAttempts /\ SnapshotIsFaithful /\ AttemptProgress
          /\ LiveCalls /\ LiveEffectOnce
          /\ StepsInOrder /\ RunIsOnStep
          /\ StateFitsCall /\ RestStates
          /\ GateIsInformed /\ CompletedIsSettled

-----------------------------------------------------------------------------
(* What the documents say and the code does not do *)

\* docs/manifest_building_manual.md: a frame with a pending action that needs
\* approval is WAITING_FOR_EXECUTE (or has failed for another reason).
PendingMeansWaiting ==
    pc = "idle" /\ (\E s \in Step : action[s] = "PENDING_APPROVAL") =>
        state \in FinalStates \cup {"WAITING_FOR_EXECUTE"}
=============================================================================
