------------------------- MODULE OrchestratorProofs -------------------------
(***************************************************************************)
(* Proofs about Orchestrator, for every number of steps, every bound on     *)
(* the attempts and every set of manifests.                                 *)
(***************************************************************************)
EXTENDS Orchestrator, GateProofs, WellFoundedInduction

(***************************************************************************)
(* Facts about the helpers.                                                 *)
(***************************************************************************)

\* A set of steps that is not empty has a least element, and Least() is it:
\* the first pending step run_next_step() looks for exists.
LEMMA LeastStep ==
    ASSUME NEW S, S \subseteq Step, S # {}
    PROVE  Least(S) \in S /\ \A t \in S : Least(S) <= t
<1> DEFINE Below == {ss \in Nat \X Nat : ss[1] < ss[2]}
<1>1. S \subseteq Nat
  BY OrchestratorAssumption DEF Step
<1>2. IsWellFoundedOn(Below, Nat)
  BY NatLessThanWellFounded, Zenon DEF OpToRel
<1> HIDE DEF Below
<1>3. PICK x \in S : \A y \in S : ~ (<<y, x>> \in Below)
  BY <1>1, <1>2, WFMin
<1>4. ASSUME NEW y \in S PROVE x <= y
  <2>1. x \in Nat /\ y \in Nat
    BY <1>1
  <2>2. y < x => <<y, x>> \in Below
    BY <2>1 DEF Below
  <2> QED
    BY <1>3, <2>1, <2>2
<1> QED
  BY <1>4 DEF Least

\* _advance_current_step_id() yields a step that comes later, or None.
LEMMA NextPendingType ==
    ASSUME NEW s \in Step
    PROVE  NextPendingAfter(s) \in Step \cup {0}
<1> DEFINE Later == {t \in PendingSteps : t > s}
<1>1. Later \subseteq Step
  BY DEF PendingSteps
<1>2. CASE Later = {}
  BY <1>2 DEF NextPendingAfter, LeastOrNone
<1>3. CASE Later # {}
  <2> HIDE DEF Later
  <2>1. Least(Later) \in Step
    BY <1>1, <1>3, LeastStep
  <2> QED
    BY <1>3, <2>1 DEF NextPendingAfter, LeastOrNone, Later
<1> QED
  BY <1>2, <1>3

(***************************************************************************)
(* Type correctness.                                                        *)
(***************************************************************************)

LEMMA TypeInit == Init => TypeOK
<1> SUFFICES ASSUME Init PROVE TypeOK
  OBVIOUS
<1>1. 1 \in Step /\ 0 \in 0..MaxAttempts
  BY OrchestratorAssumption DEF Step
<1>2. NoSnapshot \in [current : Step \cup {0}, output : [Step -> OUTPUT_VALUES],
                     action : [Step -> ACTION_VALUES], badValidation : BOOLEAN]
  BY DEF NoSnapshot, OUTPUT_VALUES, ACTION_VALUES
<1> QED
  BY <1>1, <1>2 DEF Init, TypeOK, TASKFRAME_STATES, STEP_STATUSES, OUTPUT_VALUES,
                    ACTION_VALUES, Tags

\* Whichever way an attempt that failed with class t is settled, the state and
\* the statuses keep their types.
LEMMA RetryOrFailType ==
    ASSUME TypeOK, NEW t, RetryOrFail(t)
    PROVE  /\ state' \in TASKFRAME_STATES
           /\ status' \in [Step -> STEP_STATUSES]
           /\ pc' \in {"retry", "loop"}
<1>1. CASE Retryable(at, t)
  BY <1>1 DEF RetryOrFail, TypeOK, STEP_STATUSES, TASKFRAME_STATES
<1>2. CASE ~Retryable(at, t)
  BY <1>2 DEF RetryOrFail, TypeOK, STEP_STATUSES, TASKFRAME_STATES, FailedState
<1> QED
  BY <1>1, <1>2

\* Counting an attempt stays within the policy's max_attempts.
LEMMA StartAttemptType ==
    ASSUME TypeOK, NEW s \in Step, StartAttempt(s), state' \in TASKFRAME_STATES
    PROVE  TypeOK'
<1>1. manifest \in Manifest
  BY OrchestratorAssumption DEF TypeOK
<1>2. attempts[s] \in 0..MaxAttempts /\ manifest.max_attempts[s] \in 1..MaxAttempts
  BY <1>1 DEF TypeOK, Manifest
<1>3. attempts' \in [Step -> 0..MaxAttempts]
  <2>1. attempts[s] + 1 \in 0..MaxAttempts
    BY <1>2, OrchestratorAssumption DEF StartAttempt
  <2> QED
    BY <2>1 DEF StartAttempt, CountAttempt, TypeOK
<1>4. snapshot' \in [current : Step \cup {0}, output : [Step -> OUTPUT_VALUES],
                    action : [Step -> ACTION_VALUES], badValidation : BOOLEAN]
  BY DEF StartAttempt, TakeSnapshot, TypeOK
<1>5. status' \in [Step -> STEP_STATUSES]
  BY DEF StartAttempt, TypeOK, STEP_STATUSES
<1> QED
  BY <1>3, <1>4, <1>5 DEF StartAttempt, TypeOK, manifestVars

\* A pending step exists whenever the loop goes on.
LEMMA FirstPendingType ==
    ASSUME Continues
    PROVE  Least(PendingSteps) \in PendingSteps /\ Least(PendingSteps) \in Step
<1>1. PendingSteps \subseteq Step
  BY DEF PendingSteps
<1> QED
  BY <1>1, LeastStep DEF Continues

LEMMA TypeRunStep ==
    ASSUME TypeOK, RunStep
    PROVE  TypeOK'
<1>1. CASE Prepare
  BY <1>1 DEF Prepare, TypeOK, TASKFRAME_STATES, manifestVars
<1>2. CASE LeaveLoop
  BY <1>2 DEF LeaveLoop, TypeOK, manifestVars, frameVars
<1>3. CASE ConditionError
  BY <1>3, FirstPendingType
     DEF ConditionError, TypeOK, TASKFRAME_STATES, STEP_STATUSES, manifestVars, callVars
<1>4. CASE SkipStep
  <2>1. PICK s \in Step : /\ status' = [status EXCEPT ![s] = "SKIPPED"]
                          /\ current' = NextPendingAfter(s)
                          /\ state' = StateAfterStep(s, Entered)
    BY <1>4, FirstPendingType DEF SkipStep
  <2>2. current' \in Step \cup {0}
    BY <2>1, NextPendingType
  <2>3. state' \in TASKFRAME_STATES
    BY <2>1 DEF StateAfterStep, Entered, TypeOK, TASKFRAME_STATES
  <2>4. status' \in [Step -> STEP_STATUSES]
    BY <2>1 DEF TypeOK, STEP_STATUSES
  <2> QED
    BY <1>4, <2>2, <2>3, <2>4 DEF SkipStep, TypeOK, manifestVars, callVars
<1>5. CASE FirstAttempt
  <2>1. state' \in TASKFRAME_STATES
    BY <1>5 DEF FirstAttempt, Entered, TypeOK, TASKFRAME_STATES
  <2> QED
    BY <1>5, <2>1, FirstPendingType, StartAttemptType DEF FirstAttempt
<1>6. CASE NextAttempt
  <2>1. state' \in TASKFRAME_STATES /\ at \in Step
    BY <1>6 DEF NextAttempt, TypeOK
  <2> QED
    BY <1>6, <2>1, StartAttemptType DEF NextAttempt
<1>7. CASE StepCompletes
  <2>1. output' \in [Step -> OUTPUT_VALUES]
    BY <1>7 DEF StepCompletes, TypeOK, OUTPUT_VALUES
  <2>2. status' \in [Step -> STEP_STATUSES]
    BY <1>7 DEF StepCompletes, TypeOK, STEP_STATUSES
  <2> QED
    BY <1>7, <2>1, <2>2 DEF StepCompletes, TypeOK, manifestVars
<1>8. CASE StepStages
  <2>1. output' \in [Step -> OUTPUT_VALUES]
    BY <1>8 DEF StepStages, TypeOK, OUTPUT_VALUES
  <2>2. status' \in [Step -> STEP_STATUSES] /\ state' \in TASKFRAME_STATES
    BY <1>8 DEF StepStages, TypeOK, STEP_STATUSES, TASKFRAME_STATES
  <2>3. action' \in [Step -> ACTION_VALUES]
    BY <1>8 DEF StepStages, TypeOK, ACTION_VALUES, PENDING_ACTION_STATUSES
  <2> QED
    BY <1>8, <2>1, <2>2, <2>3 DEF StepStages, TypeOK, manifestVars
<1>9. CASE StepFails
  <2>1. tag' \in Tags
    BY <1>9 DEF StepFails, FailureTags, Tags
  <2>2. status' \in [Step -> STEP_STATUSES] /\ state' \in TASKFRAME_STATES
    BY <1>9 DEF StepFails, FailedState, TypeOK, STEP_STATUSES, TASKFRAME_STATES
  <2>3. badValidation' \in BOOLEAN
    BY <1>9 DEF StepFails, TypeOK
  <2> QED
    BY <1>9, <2>1, <2>2, <2>3 DEF StepFails, TypeOK, manifestVars
<1>10. CASE AttemptSucceeded
  <2>1. current' \in Step \cup {0}
    BY <1>10, NextPendingType DEF AttemptSucceeded, TypeOK
  <2>2. state' \in TASKFRAME_STATES
    BY <1>10 DEF AttemptSucceeded, StateAfterStep, TypeOK, TASKFRAME_STATES
  <2> QED
    BY <1>10, <2>1, <2>2 DEF AttemptSucceeded, TypeOK, manifestVars
<1>11. CASE AttemptFailed
  <2>1. RetryOrFail(tag)
    BY <1>11 DEF AttemptFailed
  <2> QED
    BY <1>11, <2>1, RetryOrFailType DEF AttemptFailed, TypeOK, manifestVars
<1>12. CASE AttemptTimedOut
  <2>1. RetryOrFail("timeout")
    BY <1>12 DEF AttemptTimedOut
  <2>2. /\ current' \in Step \cup {0} /\ output' \in [Step -> OUTPUT_VALUES]
        /\ action' \in [Step -> ACTION_VALUES] /\ badValidation' \in BOOLEAN
    BY <1>12 DEF AttemptTimedOut, Restored, TypeOK
  <2> QED
    BY <1>12, <2>1, <2>2, RetryOrFailType DEF AttemptTimedOut, TypeOK, manifestVars
<1>13. CASE Verify
  <2>1. manifest.required_state \in RequiredStates
    BY OrchestratorAssumption DEF TypeOK, Manifest
  <2>2. \A f : EvaluateCompletion(manifest, f) \in TASKFRAME_STATES
    <3>1. Verdicts \subseteq TASKFRAME_STATES
      BY DEF Verdicts, TASKFRAME_STATES
    <3> QED
      BY <2>1, <3>1, VerdictType
  <2>3. PICK ok \in BOOLEAN :
            /\ badValidation' = (badValidation \/ ~ok)
            /\ \/ state' = EvaluateCompletion(manifest, Contents(badValidation \/ ~ok))
               \/ state' = state
            /\ raised' \in {raised, TRUE}
    BY <1>13, Zenon DEF Verify
  <2>4. state' \in TASKFRAME_STATES
    BY <2>2, <2>3 DEF TypeOK
  <2>5. badValidation' \in BOOLEAN /\ raised' \in BOOLEAN
    BY <2>3 DEF TypeOK
  <2> QED
    BY <1>13, <2>4, <2>5 DEF Verify, TypeOK, manifestVars
<1>14. CASE VerifyRaises
  BY <1>14 DEF VerifyRaises, TypeOK, manifestVars
<1> QED
  BY <1>1, <1>2, <1>3, <1>4, <1>5, <1>6, <1>7, <1>8, <1>9, <1>10, <1>11, <1>12,
     <1>13, <1>14 DEF RunStep

LEMMA TypeOperatorStep ==
    ASSUME TypeOK, ExecuteStep \/ OperatorStep
    PROVE  TypeOK'
<1>1. ASSUME NEW s \in Step, BlockAction(s) PROVE TypeOK'
  BY <1>1 DEF BlockAction, Stop, TypeOK, TASKFRAME_STATES, ACTION_VALUES,
              PENDING_ACTION_STATUSES, manifestVars
<1>2. ASSUME NEW s \in Step, ExecuteAction(s) PROVE TypeOK'
  <2>1. action' \in [Step -> ACTION_VALUES] /\ output' \in [Step -> OUTPUT_VALUES]
    BY <1>2 DEF ExecuteAction, TypeOK, ACTION_VALUES, PENDING_ACTION_STATUSES, OUTPUT_VALUES
  <2>2. calls' \in [Step -> Nat]
    BY <1>2 DEF ExecuteAction, TypeOK
  <2>3. todo' \in SUBSET Step /\ state' \in TASKFRAME_STATES /\ pc' \in {pc, "idle"}
    BY <1>2 DEF ExecuteAction, Stop, TypeOK, TASKFRAME_STATES
  <2> QED
    BY <1>2, <2>1, <2>2, <2>3 DEF ExecuteAction, TypeOK
<1>3. ASSUME NEW s \in Step, FailLiveAction(s) PROVE TypeOK'
  <2>1. action' \in [Step -> ACTION_VALUES]
    BY <1>3 DEF FailLiveAction, TypeOK, ACTION_VALUES, PENDING_ACTION_STATUSES
  <2>2. calls' \in [Step -> Nat]
    BY <1>3 DEF FailLiveAction, TypeOK
  <2> QED
    BY <1>3, <2>1, <2>2 DEF FailLiveAction, Stop, TypeOK, TASKFRAME_STATES
<1>4. CASE ExecuteDone
  BY <1>4 DEF ExecuteDone, TypeOK, TASKFRAME_STATES, manifestVars
<1>5. ASSUME NEW s \in Step, Approve(s) PROVE TypeOK'
  BY <1>5 DEF Approve, TypeOK, ACTION_VALUES, PENDING_ACTION_STATUSES, manifestVars, callVars
<1>6. ASSUME NEW s \in Step, Reject(s) PROVE TypeOK'
  <2>1. state' \in TASKFRAME_STATES
    BY <1>6 DEF Reject, Transitioned, TypeOK, TASKFRAME_STATES
  <2>2. action' \in [Step -> ACTION_VALUES]
    BY <1>6 DEF Reject, TypeOK, ACTION_VALUES, PENDING_ACTION_STATUSES
  <2> QED
    BY <1>6, <2>1, <2>2 DEF Reject, TypeOK, manifestVars, callVars
<1>7. CASE StartExecute
  BY <1>7 DEF StartExecute, ApprovedActions, TypeOK, TASKFRAME_STATES, manifestVars
<1> QED
  BY <1>1, <1>2, <1>3, <1>4, <1>5, <1>6, <1>7 DEF ExecuteStep, OperatorStep

LEMMA TypeNext ==
    ASSUME TypeOK, [Next]_vars
    PROVE  TypeOK'
<1>1. CASE UNCHANGED vars
  BY <1>1 DEF TypeOK, vars, manifestVars, frameVars, callVars
<1> QED
  BY <1>1, TypeRunStep, TypeOperatorStep DEF Next

\* Every variable of the frame and of the call keeps its type.
THEOREM TypeCorrect == Spec => []TypeOK
<1>1. TypeOK /\ [Next]_vars => TypeOK'
  BY TypeNext
<1> QED
  BY <1>1, TypeInit, PTL DEF Spec

(***************************************************************************)
(* The rollback of attempts: NoTraceOfFailedAttempts is inductive together  *)
(* with what the snapshot holds and how far the attempt has come.           *)
(***************************************************************************)

Rollback == NoTraceOfFailedAttempts /\ SnapshotIsFaithful /\ AttemptProgress

\* An attempt starts on a step that is pending, so nothing of the step exists,
\* and the snapshot copies the frame.
LEMMA StartAttemptRollback ==
    ASSUME TypeOK, Rollback, ~InAttempt, NEW s \in Step, status[s] = "PENDING",
           StartAttempt(s)
    PROVE  Rollback'
<1>1. /\ pc' = "attempt" /\ at' = s /\ snapshot' = TakeSnapshot
      /\ action' = action /\ output' = output
      /\ status' = [status EXCEPT ![s] = "RUNNING"]
  BY DEF StartAttempt
<1>2. \A t \in Step : Consistent(t)
  BY DEF Rollback, NoTraceOfFailedAttempts
<1>3. action[s] = "NONE" /\ output[s] = "absent"
  BY <1>2 DEF Consistent
<1>4. \A t \in Step \ {s} : Consistent(t)'
  BY <1>1, <1>2 DEF Consistent, TypeOK
<1>5. snapshot'.action = action /\ snapshot'.output = output
  BY <1>1 DEF TakeSnapshot
<1>6. SnapshotIsFaithful'
  BY <1>1, <1>3, <1>4, <1>5 DEF SnapshotIsFaithful
<1>7. AttemptProgress'
  BY <1>1, <1>3 DEF AttemptProgress
<1>8. NoTraceOfFailedAttempts'
  BY <1>1 DEF NoTraceOfFailedAttempts, InAttempt
<1> QED
  BY <1>6, <1>7, <1>8 DEF Rollback

\* An attempt that failed, with its step's action and output gone, leaves every
\* step consistent whether the step is retried or not.
LEMMA RetryOrFailRollback ==
    ASSUME TypeOK, NEW t, RetryOrFail(t),
           \A s \in Step \ {at} : Consistent(s) /\ action'[s] = action[s] /\ output'[s] = output[s],
           action'[at] = "NONE", output'[at] = "absent", at' = at
    PROVE  Rollback'
<1>1. PICK v \in {"PENDING", "FAILED"} :
          /\ status' = [status EXCEPT ![at] = v]
          /\ pc' \in {"retry", "loop"}
          /\ pc' = "retry" => v = "PENDING"
  BY DEF RetryOrFail
<1>2. \A s \in Step : Consistent(s)'
  BY <1>1 DEF Consistent, TypeOK
<1>3. pc' = "retry" => status'[at] = "PENDING"
  BY <1>1 DEF TypeOK
<1> QED
  BY <1>1, <1>2, <1>3 DEF Rollback, NoTraceOfFailedAttempts, SnapshotIsFaithful,
                          AttemptProgress, InAttempt

LEMMA RollbackInit == Init => Rollback
  BY DEF Init, Rollback, NoTraceOfFailedAttempts, SnapshotIsFaithful, AttemptProgress,
         InAttempt, Consistent

LEMMA RollbackRunStep ==
    ASSUME TypeOK, Rollback, RunStep
    PROVE  Rollback'
<1> USE DEF Rollback
<1>1. CASE Prepare
  BY <1>1 DEF Prepare, NoTraceOfFailedAttempts, SnapshotIsFaithful, AttemptProgress,
              InAttempt, Consistent
<1>2. CASE LeaveLoop
  BY <1>2 DEF LeaveLoop, frameVars, NoTraceOfFailedAttempts, SnapshotIsFaithful,
              AttemptProgress, InAttempt, Consistent
<1>3. CASE ConditionError
  <2>1. PICK s \in Step : status[s] = "PENDING" /\ status' = [status EXCEPT ![s] = "FAILED"]
    BY <1>3, FirstPendingType DEF ConditionError, PendingSteps
  <2>2. \A t \in Step : Consistent(t)
    BY <1>3 DEF ConditionError, NoTraceOfFailedAttempts, InAttempt
  <2>3. \A t \in Step : Consistent(t)'
    BY <1>3, <2>1, <2>2 DEF ConditionError, Consistent, TypeOK
  <2> QED
    BY <1>3, <2>3 DEF ConditionError, callVars, NoTraceOfFailedAttempts,
                      SnapshotIsFaithful, AttemptProgress, InAttempt
<1>4. CASE SkipStep
  <2>1. PICK s \in Step : status[s] = "PENDING" /\ status' = [status EXCEPT ![s] = "SKIPPED"]
    BY <1>4, FirstPendingType DEF SkipStep, PendingSteps
  <2>2. \A t \in Step : Consistent(t)
    BY <1>4 DEF SkipStep, NoTraceOfFailedAttempts, InAttempt
  <2>3. \A t \in Step : Consistent(t)'
    BY <1>4, <2>1, <2>2 DEF SkipStep, Consistent, TypeOK
  <2> QED
    BY <1>4, <2>3 DEF SkipStep, callVars, NoTraceOfFailedAttempts,
                      SnapshotIsFaithful, AttemptProgress, InAttempt
<1>5. CASE FirstAttempt
  <2>1. Least(PendingSteps) \in Step /\ status[Least(PendingSteps)] = "PENDING"
    BY <1>5, FirstPendingType DEF FirstAttempt, PendingSteps
  <2> QED
    BY <1>5, <2>1, StartAttemptRollback DEF FirstAttempt, InAttempt
<1>6. CASE NextAttempt
  <2>1. at \in Step /\ status[at] = "PENDING"
    BY <1>6 DEF NextAttempt, AttemptProgress, TypeOK
  <2> QED
    BY <1>6, <2>1, StartAttemptRollback DEF NextAttempt, InAttempt
<1>7. CASE StepCompletes
  <2>1. /\ at \in Step /\ at' = at /\ pc = "attempt" /\ pc' = "settle" /\ action' = action
        /\ snapshot' = snapshot /\ status' = [status EXCEPT ![at] = "COMPLETED"]
        /\ \A s \in Step \ {at} : output'[s] = output[s]
    BY <1>7 DEF StepCompletes, TypeOK
  <2>2. action[at] = "NONE"
    BY <2>1 DEF AttemptProgress
  <2>3. /\ \A s \in Step \ {at} : Consistent(s)'
        /\ Consistent(at)' /\ status'[at] = "COMPLETED"
    BY <2>1, <2>2 DEF SnapshotIsFaithful, InAttempt, Consistent, TypeOK
  <2> QED
    BY <2>1, <2>2, <2>3 DEF NoTraceOfFailedAttempts, SnapshotIsFaithful, AttemptProgress, InAttempt
<1>8. CASE StepStages
  <2>1. /\ at \in Step /\ at' = at /\ pc = "attempt" /\ pc' = "settle"
        /\ action' = [action EXCEPT ![at] = "PENDING_APPROVAL"]
        /\ snapshot' = snapshot /\ status' = [status EXCEPT ![at] = "STAGED"]
        /\ \A s \in Step \ {at} : output'[s] = output[s]
    BY <1>8 DEF StepStages, TypeOK
  <2>2. /\ \A s \in Step \ {at} : Consistent(s)' /\ action'[s] = action[s]
        /\ Consistent(at)' /\ status'[at] = "STAGED" /\ action'[at] = "PENDING_APPROVAL"
    BY <2>1 DEF SnapshotIsFaithful, InAttempt, Consistent, TypeOK
  <2> QED
    BY <2>1, <2>2 DEF NoTraceOfFailedAttempts, SnapshotIsFaithful, AttemptProgress, InAttempt
<1>9. CASE StepFails
  <2>1. /\ at \in Step /\ at' = at /\ pc = "attempt" /\ pc' = "settle"
        /\ action' = action /\ output' = output
        /\ snapshot' = snapshot /\ status' = [status EXCEPT ![at] = "FAILED"]
    BY <1>9 DEF StepFails, TypeOK
  <2>2. /\ \A s \in Step \ {at} : Consistent(s)'
        /\ status'[at] = "FAILED" /\ action[at] = "NONE" /\ output[at] = "absent"
    BY <2>1 DEF SnapshotIsFaithful, AttemptProgress, InAttempt, Consistent, TypeOK
  <2> QED
    BY <2>1, <2>2 DEF NoTraceOfFailedAttempts, SnapshotIsFaithful, AttemptProgress, InAttempt
<1>10. CASE AttemptSucceeded
  <2>1. Consistent(at)
    BY <1>10 DEF AttemptSucceeded, AttemptProgress, SettledStatuses
  <2>2. \A s \in Step : Consistent(s)
    BY <1>10, <2>1 DEF AttemptSucceeded, SnapshotIsFaithful, InAttempt
  <2> QED
    BY <1>10, <2>2 DEF AttemptSucceeded, NoTraceOfFailedAttempts, SnapshotIsFaithful,
                       AttemptProgress, InAttempt, Consistent
<1>11. CASE AttemptFailed
  <2>1. /\ RetryOrFail(tag) /\ at' = at /\ action' = action /\ output' = output
        /\ action[at] = "NONE" /\ output[at] = "absent"
    BY <1>11 DEF AttemptFailed, AttemptProgress
  <2>2. \A s \in Step \ {at} : Consistent(s)
    BY <1>11 DEF AttemptFailed, SnapshotIsFaithful, InAttempt
  <2> QED
    BY <2>1, <2>2, RetryOrFailRollback
<1>12. CASE AttemptTimedOut
  <2>1. /\ RetryOrFail("timeout") /\ at' = at
        /\ action' = snapshot.action /\ output' = snapshot.output
    BY <1>12 DEF AttemptTimedOut, Restored
  <2>2. /\ \A s \in Step \ {at} : Consistent(s) /\ snapshot.action[s] = action[s]
                                 /\ snapshot.output[s] = output[s]
        /\ snapshot.action[at] = "NONE" /\ snapshot.output[at] = "absent"
    BY <1>12 DEF AttemptTimedOut, SnapshotIsFaithful, InAttempt
  <2> QED
    BY <2>1, <2>2, RetryOrFailRollback
<1>13. CASE Verify
  BY <1>13 DEF Verify, NoTraceOfFailedAttempts, SnapshotIsFaithful, AttemptProgress,
               InAttempt, Consistent
<1>14. CASE VerifyRaises
  BY <1>14 DEF VerifyRaises, NoTraceOfFailedAttempts, SnapshotIsFaithful, AttemptProgress,
               InAttempt, Consistent
<1> QED
  BY <1>1, <1>2, <1>3, <1>4, <1>5, <1>6, <1>7, <1>8, <1>9, <1>10, <1>11, <1>12,
     <1>13, <1>14 DEF RunStep

\* The approvals and executions only move actions that exist, to statuses that
\* are statuses of an action.
LEMMA RollbackOperatorStep ==
    ASSUME TypeOK, Rollback, LiveCalls, ExecuteStep \/ OperatorStep
    PROVE  Rollback'
<1> USE DEF Rollback
\* All of them run between attempts, on steps that are consistent.
<1> DEFINE Quiet == /\ pc \in {"idle", "execute"} /\ pc' \in {"idle", "execute", "verify"}
                    /\ status' = status
<1>1. ASSUME Quiet, NEW s \in Step, action[s] # "NONE",
             NEW v \in PENDING_ACTION_STATUSES, action' = [action EXCEPT ![s] = v],
             output' = output \/ output' = [output EXCEPT ![s] = "value"]
      PROVE  Rollback'
  <2>1. \A t \in Step : Consistent(t)
    BY <1>1 DEF NoTraceOfFailedAttempts, InAttempt
  <2>2. status[s] = "STAGED" /\ v # "NONE"
    BY <1>1, <2>1 DEF Consistent, PENDING_ACTION_STATUSES
  <2>3. \A t \in Step : Consistent(t)'
    BY <1>1, <2>1, <2>2 DEF Consistent, TypeOK
  <2> QED
    BY <1>1, <2>3 DEF NoTraceOfFailedAttempts, SnapshotIsFaithful, AttemptProgress, InAttempt
<1>2. ASSUME Quiet, action' = action, output' = output
      PROVE  Rollback'
  BY <1>2 DEF NoTraceOfFailedAttempts, SnapshotIsFaithful, AttemptProgress, InAttempt, Consistent
<1>3. ASSUME NEW s \in Step, Executing(s)
      PROVE  action[s] # "NONE"
  BY <1>3, LeastStep DEF Executing, LiveCalls, TypeOK
<1>4. {"APPROVED", "REJECTED", "EXECUTED", "FAILED"} \subseteq PENDING_ACTION_STATUSES
  BY DEF PENDING_ACTION_STATUSES
<1>5. ASSUME NEW s \in Step, BlockAction(s) PROVE Rollback'
  <2>1. Quiet /\ action' = [action EXCEPT ![s] = "FAILED"] /\ output' = output
    BY <1>5 DEF BlockAction, Executing, Stop
  <2> QED
    BY <1>1, <1>3, <1>4, <1>5, <2>1 DEF BlockAction
<1>6. ASSUME NEW s \in Step, ExecuteAction(s) PROVE Rollback'
  <2>1. Quiet /\ action' = [action EXCEPT ![s] = "EXECUTED"]
              /\ output' = [output EXCEPT ![s] = "value"]
    BY <1>6 DEF ExecuteAction, Executing, Stop
  <2> QED
    BY <1>1, <1>3, <1>4, <1>6, <2>1 DEF ExecuteAction
<1>7. ASSUME NEW s \in Step, FailLiveAction(s) PROVE Rollback'
  <2>1. Quiet /\ action' = [action EXCEPT ![s] = "FAILED"] /\ output' = output
    BY <1>7 DEF FailLiveAction, Executing, Stop
  <2> QED
    BY <1>1, <1>3, <1>4, <1>7, <2>1 DEF FailLiveAction
<1>8. CASE ExecuteDone
  BY <1>2, <1>8 DEF ExecuteDone
<1>9. ASSUME NEW s \in Step, Approve(s) PROVE Rollback'
  <2>1. Quiet /\ action' = [action EXCEPT ![s] = "APPROVED"] /\ output' = output
              /\ action[s] # "NONE"
    BY <1>9 DEF Approve, callVars
  <2> QED
    BY <1>1, <1>4, <2>1
<1>10. ASSUME NEW s \in Step, Reject(s) PROVE Rollback'
  <2>1. Quiet /\ action' = [action EXCEPT ![s] = "REJECTED"] /\ output' = output
              /\ action[s] # "NONE"
    BY <1>10 DEF Reject, callVars
  <2> QED
    BY <1>1, <1>4, <2>1
<1>11. CASE StartExecute
  BY <1>2, <1>11 DEF StartExecute
<1> QED
  BY <1>5, <1>6, <1>7, <1>8, <1>9, <1>10, <1>11 DEF ExecuteStep, OperatorStep

(***************************************************************************)
(* Live calls: LiveEffectOnce is inductive together with LiveCalls, which   *)
(* ties a call made to the status of its action.                            *)
(***************************************************************************)

Once == LiveCalls /\ LiveEffectOnce

LEMMA OnceInit == Init => Once
<1> SUFFICES ASSUME Init PROVE Once
  OBVIOUS
<1>1. \A s \in Step : calls[s] = 0
  BY DEF Init
<1>2. pc = "created"
  BY DEF Init
<1> QED
  BY <1>1, <1>2 DEF Once, LiveCalls, LiveEffectOnce

\* The run itself makes no live call; when a call has been made it is over, and
\* verify_frame() touches no action.
LEMMA OnceRunStep ==
    ASSUME TypeOK, Once, RunStep
    PROVE  Once'
<1>1. calls' = calls /\ manifest' = manifest
  BY DEF RunStep, Prepare, LeaveLoop, ConditionError, SkipStep, FirstAttempt, NextAttempt,
         StartAttempt, StepCompletes, StepStages, StepFails, AttemptSucceeded, AttemptFailed,
         AttemptTimedOut, Verify, VerifyRaises, manifestVars
<1>2. LiveEffectOnce'
  BY <1>1 DEF Once, LiveEffectOnce
<1>3. CASE pc = "verify"
  <2>1. Verify \/ VerifyRaises
    BY <1>3 DEF RunStep, Prepare, LeaveLoop, ConditionError, SkipStep, FirstAttempt, NextAttempt,
         StepCompletes, StepStages, StepFails, AttemptSucceeded, AttemptFailed, AttemptTimedOut
  <2>2. action' = action /\ todo' = todo /\ pc' = "idle"
    BY <2>1 DEF Verify, VerifyRaises
  <2>3. \A s \in Step : calls[s] > 0 => action[s] = "EXECUTED"
    BY <1>3 DEF Once, LiveCalls
  <2> QED
    BY <1>1, <1>2, <2>2, <2>3 DEF Once, LiveCalls
<1>4. CASE pc # "verify"
  <2>1. pc \in {"created", "loop", "attempt", "settle", "retry"}
    BY <1>4 DEF RunStep, Prepare, LeaveLoop, ConditionError, SkipStep, FirstAttempt, NextAttempt,
         StepCompletes, StepStages, StepFails, AttemptSucceeded, AttemptFailed, AttemptTimedOut,
         Verify, VerifyRaises
  <2>2. pc' # "execute"
    BY <1>4, <2>1 DEF RunStep, Prepare, LeaveLoop, ConditionError, SkipStep, FirstAttempt, NextAttempt,
         StartAttempt, StepCompletes, StepStages, StepFails, AttemptSucceeded, AttemptFailed,
         AttemptTimedOut, RetryOrFail, Verify, VerifyRaises, callVars
  <2>3. \A s \in Step : calls'[s] = 0
    BY <1>1, <2>1 DEF Once, LiveCalls
  <2> QED
    BY <1>2, <2>2, <2>3 DEF Once, LiveCalls
<1> QED
  BY <1>3, <1>4

\* Nothing leads out of a failed frame.
LEMMA FailedIsFinal ==
    ASSUME state = "FAILED_EXECUTION", NEW to
    PROVE  Transitioned(to) = state
<1>1. VALID_TRANSITIONS["FAILED_EXECUTION"] = {}
  BY DEF VALID_TRANSITIONS, TASKFRAME_STATES
<1> QED
  BY <1>1 DEF Transitioned, CanTransition

\* The next action of an execution is approved, so it was never called, and
\* every call made so far belongs to an action that is EXECUTED.
LEMMA ExecutingFacts ==
    ASSUME TypeOK, Once, NEW s \in Step, Executing(s)
    PROVE  /\ s \in todo /\ action[s] = "APPROVED" /\ calls[s] = 0
           /\ \A t \in Step : calls[t] > 0 => action[t] = "EXECUTED"
           /\ \A t \in todo : action[t] = "APPROVED"
<1>1. pc = "execute" /\ s \in todo
  BY LeastStep DEF Executing, TypeOK
<1>2. action[s] = "APPROVED" /\ \A t \in todo : action[t] = "APPROVED"
  BY <1>1 DEF Once, LiveCalls
<1>3. \A t \in Step : calls[t] > 0 => action[t] = "EXECUTED"
  BY <1>1 DEF Once, LiveCalls
<1>4. calls[s] \in Nat /\ ~ (calls[s] > 0)
  BY <1>2, <1>3 DEF TypeOK
<1> QED
  BY <1>1, <1>2, <1>3, <1>4

\* A live call of an action without duplicates is the first of its effect.
LEMMA FirstCall ==
    ASSUME TypeOK, Once, NEW s \in Step, Executing(s), Duplicates(s) = {},
           calls' = [calls EXCEPT ![s] = @ + 1], manifest' = manifest
    PROVE  LiveEffectOnce'
<1>1. calls'[s] = 1 /\ \A t \in Step \ {s} : calls'[t] = calls[t]
  BY ExecutingFacts DEF TypeOK
<1>2. \A t \in Step \ {s} : calls[t] > 0 => manifest.effect[t] # manifest.effect[s]
  BY ExecutingFacts DEF Duplicates
<1> QED
  BY <1>1, <1>2 DEF Once, LiveEffectOnce

LEMMA OnceOperatorStep ==
    ASSUME TypeOK, Once, ExecuteStep \/ OperatorStep
    PROVE  Once'
<1>1. ASSUME NEW s \in Step, BlockAction(s) PROVE Once'
  <2>1. /\ Executing(s) /\ pc' = "idle" /\ calls' = calls /\ manifest' = manifest
        /\ action' = [action EXCEPT ![s] = "FAILED"]
    BY <1>1 DEF BlockAction, Stop, manifestVars
  <2>2. \A t \in Step : calls'[t] > 0 => action'[t] = "EXECUTED"
    BY <2>1, ExecutingFacts DEF TypeOK
  <2> QED
    BY <2>1, <2>2 DEF Once, LiveCalls, LiveEffectOnce
<1>2. ASSUME NEW s \in Step, ExecuteAction(s) PROVE Once'
  <2>1. /\ Executing(s) /\ Duplicates(s) = {} /\ manifest' = manifest
        /\ action' = [action EXCEPT ![s] = "EXECUTED"]
        /\ pc' \in {"execute", "idle"}
        /\ pc' = "execute" => todo' = todo \ {s}
        /\ \/ calls' = calls
           \/ calls' = [calls EXCEPT ![s] = @ + 1]
    BY <1>2 DEF ExecuteAction, Stop, Executing
  <2>2. LiveEffectOnce'
    BY <2>1, FirstCall DEF Once, LiveEffectOnce
  <2>3. \A t \in Step : calls'[t] > 0 => action'[t] = "EXECUTED"
    BY <2>1, ExecutingFacts DEF TypeOK
  <2>4. pc' = "execute" => \A t \in todo' : action'[t] = "APPROVED"
    BY <2>1, ExecutingFacts DEF TypeOK
  <2> QED
    BY <2>1, <2>2, <2>3, <2>4 DEF Once, LiveCalls
<1>3. ASSUME NEW s \in Step, FailLiveAction(s) PROVE Once'
  <2>1. /\ Executing(s) /\ Duplicates(s) = {} /\ manifest' = manifest
        /\ action' = [action EXCEPT ![s] = "FAILED"]
        /\ pc' = "idle" /\ state' = "FAILED_EXECUTION"
        /\ calls' = [calls EXCEPT ![s] = @ + 1]
    BY <1>3 DEF FailLiveAction, Stop
  <2>2. LiveEffectOnce'
    BY <2>1, FirstCall
  <2>3. \A t \in Step : calls'[t] > 0 => action'[t] \in {"EXECUTED", "FAILED"}
    BY <2>1, ExecutingFacts DEF TypeOK
  <2> QED
    BY <2>1, <2>2, <2>3 DEF Once, LiveCalls
<1>4. CASE ExecuteDone
  <2>1. /\ pc = "execute" /\ pc' = "verify" /\ calls' = calls /\ manifest' = manifest
        /\ action' = action
    BY <1>4 DEF ExecuteDone, manifestVars
  <2> QED
    BY <2>1 DEF Once, LiveCalls, LiveEffectOnce
<1>5. ASSUME NEW s \in Step, Approve(s) PROVE Once'
  <2>1. /\ pc = "idle" /\ pc' = "idle" /\ calls' = calls /\ manifest' = manifest
        /\ action[s] = "PENDING_APPROVAL" /\ state' = state
        /\ action' = [action EXCEPT ![s] = "APPROVED"]
    BY <1>5 DEF Approve, manifestVars, callVars
  <2> QED
    BY <2>1 DEF Once, LiveCalls, LiveEffectOnce, TypeOK
<1>6. ASSUME NEW s \in Step, Reject(s) PROVE Once'
  <2>1. /\ pc = "idle" /\ pc' = "idle" /\ calls' = calls /\ manifest' = manifest
        /\ action[s] = "PENDING_APPROVAL"
        /\ action' = [action EXCEPT ![s] = "REJECTED"]
    BY <1>6 DEF Reject, manifestVars, callVars
  <2>2. state = "FAILED_EXECUTION" => state' = state
    BY <1>6, FailedIsFinal DEF Reject
  <2> QED
    BY <2>1, <2>2 DEF Once, LiveCalls, LiveEffectOnce, TypeOK
<1>7. CASE StartExecute
  <2>1. /\ pc' = "execute" /\ calls' = calls /\ manifest' = manifest /\ action' = action
        /\ state = "WAITING_FOR_EXECUTE"
        /\ \A t \in todo' : action[t] = "APPROVED"
    BY <1>7 DEF StartExecute, manifestVars, ApprovedActions
  <2> QED
    BY <2>1 DEF Once, LiveCalls, LiveEffectOnce
<1> QED
  BY <1>1, <1>2, <1>3, <1>4, <1>5, <1>6, <1>7 DEF ExecuteStep, OperatorStep

(***************************************************************************)
(* The order of the run: StepsInOrder is inductive together with where the  *)
(* run is among the steps.                                                  *)
(***************************************************************************)

Order == StepsInOrder /\ RunIsOnStep

\* Steps are comparable.
LEMMA StepsComparable ==
    ASSUME NEW s \in Step, NEW t \in Step
    PROVE  /\ s \in Nat
           /\ s < t \/ s = t \/ s > t
           /\ ~ (s < t /\ s > t) /\ ~ (s < s) /\ ~ (s > s)
           /\ s > t <=> t < s
  BY OrchestratorAssumption DEF Step

LEMMA OrderInit == Init => Order
<1> SUFFICES ASSUME Init PROVE Order
  OBVIOUS
<1>1. pc = "created" /\ \A s \in Step : status[s] = "PENDING"
  BY DEF Init
<1> QED
  BY <1>1 DEF Order, StepsInOrder, RunIsOnStep, PendingSteps

\* While the run is on a step, what it did before and will do after is in order.
LEMMA OnStepInOrder ==
    ASSUME NEW a \in Step, status' \in [Step -> STEP_STATUSES],
           \A s \in Step : /\ s < a => status'[s] \in SettledStatuses
                           /\ s > a => status'[s] = "PENDING"
    PROVE  StepsInOrder'
<1> SUFFICES ASSUME NEW s \in Step, NEW t \in Step, t < s, status'[s] # "PENDING"
             PROVE  status'[t] \in SettledStatuses
  BY DEF StepsInOrder
<1>1. s \in Nat /\ t \in Nat /\ a \in Nat
  BY StepsComparable
<1>2. ~ (s > a)
  OBVIOUS
<1>3. t < a
  BY <1>1, <1>2
<1> QED
  BY <1>3

\* The step the loop picks comes after all that went through and before all
\* that wait.
LEMMA FirstPendingIsNext ==
    ASSUME Order, pc = "loop", Continues
    PROVE  LET p == Least(PendingSteps) IN
             /\ p \in Step /\ status[p] = "PENDING"
             /\ \A s \in Step : /\ s < p => status[s] \in SettledStatuses
                                /\ s > p => status[s] = "PENDING"
<1> DEFINE p == Least(PendingSteps)
<1>1. p \in Step /\ status[p] = "PENDING"
  BY FirstPendingType DEF PendingSteps
<1>2. \A t \in PendingSteps : p <= t
  BY LeastStep DEF Continues, PendingSteps
<1> HIDE DEF p
<1>3. \A s \in Step : Untroubled(s)
  BY DEF Order, RunIsOnStep, Continues
<1>4. ASSUME NEW s \in Step, s < p PROVE status[s] \in SettledStatuses
  <2>1. ~ (p <= s)
    BY <1>1, <1>4, StepsComparable
  <2>2. status[s] # "PENDING"
    BY <1>2, <2>1 DEF PendingSteps
  <2> QED
    BY <1>3, <2>2 DEF Untroubled
<1>5. ASSUME NEW s \in Step, s > p PROVE status[s] = "PENDING"
  <2>1. p < s
    BY <1>1, <1>5, StepsComparable
  <2>2. status[p] \notin SettledStatuses
    BY <1>1 DEF SettledStatuses
  <2> QED
    BY <1>1, <2>1, <2>2 DEF Order, StepsInOrder
<1> QED
  BY <1>1, <1>4, <1>5 DEF p

\* A step that is picked, tried, settled or given up keeps its place.
LEMMA MoveStepOrder ==
    ASSUME TypeOK, NEW a \in Step, NEW v \in STEP_STATUSES,
           \A s \in Step : /\ s < a => status[s] \in SettledStatuses
                           /\ s > a => status[s] = "PENDING",
           status' = [status EXCEPT ![a] = v]
    PROVE  /\ StepsInOrder'
           /\ status'[a] = v
           /\ \A s \in Step : /\ s < a => status'[s] \in SettledStatuses
                              /\ s > a => status'[s] = "PENDING"
           /\ v \in SettledStatuses \cup {"PENDING"} => \A s \in Step : Untroubled(s)'
<1>1. status' \in [Step -> STEP_STATUSES] /\ status'[a] = v
  BY DEF TypeOK
<1>2. \A s \in Step : /\ s < a => status'[s] \in SettledStatuses
                      /\ s > a => status'[s] = "PENDING"
  BY StepsComparable DEF TypeOK
<1>3. StepsInOrder'
  BY <1>1, <1>2, OnStepInOrder
<1>4. v \in SettledStatuses \cup {"PENDING"} => \A s \in Step : Untroubled(s)'
  BY <1>1, <1>2, StepsComparable DEF Untroubled
<1> QED
  BY <1>1, <1>2, <1>3, <1>4

\* The statuses stay and no attempt is under way: only what the loop relies on
\* is left to show.
LEMMA SameStatusOrder ==
    ASSUME Order, status' = status,
           pc' \in {"loop", "verify", "idle", "execute"},
           pc' = "loop" => \A s \in Step : Untroubled(s)
    PROVE  Order'
  BY DEF Order, StepsInOrder, RunIsOnStep, Untroubled

LEMMA OrderRunStep ==
    ASSUME TypeOK, Order, AttemptProgress, RunStep
    PROVE  Order'
<1> DEFINE OnStep(a) == \A s \in Step : /\ s < a => status[s] \in SettledStatuses
                                        /\ s > a => status[s] = "PENDING"
<1>s. {"PENDING", "RUNNING", "COMPLETED", "STAGED", "FAILED", "SKIPPED"} = STEP_STATUSES
  BY DEF STEP_STATUSES
<1>a. at \in Step
  BY DEF TypeOK
<1>o. pc \in {"attempt", "settle", "retry"} => OnStep(at)
  BY DEF Order, RunIsOnStep
\* The three ways a step's status changes.
<1>x. ASSUME NEW a \in Step, OnStep(a), status' = [status EXCEPT ![a] = "RUNNING"],
             pc' = "attempt", at' = a
      PROVE  Order'
  <2>1. /\ StepsInOrder' /\ status'[a] = "RUNNING"
        /\ \A s \in Step : /\ s < a => status'[s] \in SettledStatuses
                           /\ s > a => status'[s] = "PENDING"
    BY <1>s, <1>x, MoveStepOrder
  <2> QED
    BY <1>x, <2>1 DEF Order, RunIsOnStep
<1>y. ASSUME NEW v \in {"COMPLETED", "STAGED", "FAILED"}, pc = "attempt",
             status' = [status EXCEPT ![at] = v], pc' = "settle", at' = at
      PROVE  Order'
  BY <1>a, <1>o, <1>s, <1>y, MoveStepOrder DEF Order, RunIsOnStep
<1>z. ASSUME NEW a \in Step, OnStep(a), NEW v \in {"SKIPPED", "FAILED", "PENDING"},
             status' = [status EXCEPT ![a] = v],
             \/ pc' = "loop" /\ (v = "FAILED" => state' \in FailureStates)
             \/ pc' = "retry" /\ at' = a
      PROVE  Order'
  <2>1. state' \in {"READY", "RUNNING", "WAITING_FOR_EXECUTE"} => state' \notin FailureStates
    BY DEF FailureStates
  <2>2. v \in STEP_STATUSES /\ (v # "FAILED" => v \in SettledStatuses \cup {"PENDING"})
    BY <1>s DEF SettledStatuses
  <2>3. /\ StepsInOrder'
        /\ \A s \in Step : /\ s < a => status'[s] \in SettledStatuses
                           /\ s > a => status'[s] = "PENDING"
        /\ v # "FAILED" => \A s \in Step : Untroubled(s)'
    BY <1>z, <2>2, MoveStepOrder
  <2> QED
    BY <1>z, <2>1, <2>3 DEF Order, RunIsOnStep
<1>r. ASSUME NEW t, RetryOrFail(t), pc = "settle", at' = at PROVE Order'
  <2>1. FailedState(at, t) \in FailureStates
    BY DEF FailedState, FailureStates
  <2>2. CASE Retryable(at, t)
    BY <1>a, <1>o, <1>r, <1>z, <2>2 DEF RetryOrFail
  <2>3. CASE ~Retryable(at, t)
    BY <1>a, <1>o, <1>r, <1>z, <2>1, <2>3 DEF RetryOrFail
  <2> QED
    BY <2>2, <2>3
<1>1. CASE Prepare
  <2>1. PendingSteps = Step /\ status' = status /\ pc' = "loop"
    BY <1>1 DEF Prepare, Order, RunIsOnStep
  <2>2. \A s \in Step : Untroubled(s)
    BY <2>1 DEF PendingSteps, Untroubled
  <2> QED
    BY <2>1, <2>2, SameStatusOrder
<1>2. CASE LeaveLoop
  BY <1>2, SameStatusOrder DEF LeaveLoop, frameVars
<1>3. CASE ConditionError
  BY <1>3, <1>z, FirstPendingIsNext DEF ConditionError, callVars, FailureStates
<1>4. CASE SkipStep
  BY <1>4, <1>z, FirstPendingIsNext DEF SkipStep, callVars
<1>5. CASE FirstAttempt
  BY <1>5, <1>x, FirstPendingIsNext DEF FirstAttempt, StartAttempt
<1>6. CASE NextAttempt
  BY <1>6, <1>a, <1>o, <1>x DEF NextAttempt, StartAttempt
<1>7. CASE StepCompletes
  BY <1>7, <1>y DEF StepCompletes
<1>8. CASE StepStages
  BY <1>8, <1>y DEF StepStages
<1>9. CASE StepFails
  BY <1>9, <1>y DEF StepFails
<1>10. CASE AttemptSucceeded
  <2>1. \A s \in Step : Untroubled(s)
    BY <1>10, <1>a, <1>o, StepsComparable DEF AttemptSucceeded, Untroubled
  <2> QED
    BY <1>10, <2>1, SameStatusOrder DEF AttemptSucceeded
<1>11. CASE AttemptFailed
  BY <1>11, <1>r DEF AttemptFailed
<1>12. CASE AttemptTimedOut
  BY <1>12, <1>r DEF AttemptTimedOut
<1>13. CASE Verify
  BY <1>13, SameStatusOrder DEF Verify
<1>14. CASE VerifyRaises
  BY <1>14, SameStatusOrder DEF VerifyRaises
<1> QED
  BY <1>1, <1>2, <1>3, <1>4, <1>5, <1>6, <1>7, <1>8, <1>9, <1>10, <1>11, <1>12,
     <1>13, <1>14 DEF RunStep

\* No operation of an operator touches a step.
LEMMA OrderOperatorStep ==
    ASSUME Order, ExecuteStep \/ OperatorStep
    PROVE  Order'
<1>1. status' = status /\ pc' \in {"idle", "execute", "verify"}
  BY DEF ExecuteStep, OperatorStep, BlockAction, ExecuteAction, FailLiveAction, ExecuteDone,
         Executing, Stop, Approve, Reject, StartExecute, callVars
<1> QED
  BY <1>1, SameStatusOrder

(***************************************************************************)
(* The state of the frame: where the call is, the states it can rest in,    *)
(* and what the completion gate decides on.                                 *)
(***************************************************************************)

Fit == StateFitsCall /\ RestStates

LEMMA FitInit == Init => Fit
  BY DEF Init, Fit, StateFitsCall, RestStates

\* A step that goes through leaves the frame RUNNING only with steps to run.
LEMMA StateAfterStepFits ==
    ASSUME NEW s \in Step, NEW st \in {"RUNNING", "WAITING_FOR_EXECUTE"},
           state' = StateAfterStep(s, st),
           \A t \in Step \ {s} : status'[t] = status[t],
           status'[s] # "PENDING"
    PROVE  /\ state' \in {"RUNNING", "WAITING_FOR_EXECUTE", "VERIFYING"}
           /\ state' = "RUNNING" => PendingSteps' # {}
           /\ state' = "VERIFYING" => PendingSteps' = {}
<1>1. PendingSteps' = PendingSteps \ {s}
  BY DEF PendingSteps
<1> QED
  BY <1>1 DEF StateAfterStep

\* The gate's verdict keeps a frame waiting or ends it.
LEMMA VerdictRests ==
    ASSUME TypeOK, NEW f
    PROVE  EvaluateCompletion(manifest, f) \in FinalStates \cup {"WAITING_FOR_EXECUTE"}
<1>1. manifest.required_state \in RequiredStates
  BY OrchestratorAssumption DEF TypeOK, Manifest
<1>2. Verdicts \subseteq FinalStates \cup {"WAITING_FOR_EXECUTE"}
  BY DEF Verdicts, FinalStates, SuccessStates, FailureStates
<1> QED
  BY <1>1, <1>2, VerdictType

LEMMA FitRunStep ==
    ASSUME TypeOK, Order, AttemptProgress, Fit, RunStep
    PROVE  Fit'
<1> USE DEF Fit
<1>s. /\ "FAILED_EXECUTION" \in FinalStates /\ "FAILED_VALIDATION" \in FinalStates
      /\ "PENDING" \notin SettledStatuses
  BY DEF FinalStates, FailureStates, SettledStatuses
\* An attempt begins in a frame that is RUNNING or waits for an approval.
<1>x. ASSUME NEW a \in Step, StartAttempt(a), state' \in {"RUNNING", "WAITING_FOR_EXECUTE"}
      PROVE  Fit'
  BY <1>x DEF StartAttempt, StateFitsCall, RestStates
<1>r. ASSUME NEW t, RetryOrFail(t), pc = "settle" PROVE Fit'
  <2>1. FailedState(at, t) \in {"FAILED_VALIDATION", "FAILED_EXECUTION"}
    BY DEF FailedState
  <2>2. CASE Retryable(at, t)
    BY <1>r, <2>2 DEF RetryOrFail, StateFitsCall, RestStates
  <2>3. CASE ~Retryable(at, t)
    BY <1>r, <2>1, <2>3 DEF RetryOrFail, StateFitsCall, RestStates
  <2> QED
    BY <2>2, <2>3
<1>1. CASE Prepare
  <2>1. PendingSteps' = Step
    BY <1>1 DEF Prepare, Order, RunIsOnStep, PendingSteps
  <2>2. Step # {}
    BY OrchestratorAssumption DEF Step
  <2> QED
    BY <1>1, <2>1, <2>2 DEF Prepare, StateFitsCall, RestStates
<1>2. CASE LeaveLoop
  <2>1. state' = state /\ raised' = raised
    BY <1>2 DEF LeaveLoop, frameVars
  <2>2. CASE state \in {"VERIFYING", "WAITING_FOR_EXECUTE"}
    BY <1>2, <2>1, <2>2 DEF LeaveLoop, StateFitsCall, RestStates
  <2>3. CASE state \notin {"VERIFYING", "WAITING_FOR_EXECUTE"}
    <3>1. state \in {"FAILED_EXECUTION", "FAILED_VALIDATION"}
      BY <1>2, <2>3 DEF LeaveLoop, StateFitsCall, Continues
    <3> QED
      BY <1>2, <1>s, <2>1, <2>3, <3>1 DEF LeaveLoop, StateFitsCall, RestStates
  <2> QED
    BY <2>2, <2>3
<1>3. CASE ConditionError
  BY <1>3 DEF ConditionError, callVars, StateFitsCall, RestStates
<1>e. Continues => Entered \in {"RUNNING", "WAITING_FOR_EXECUTE"}
  BY DEF Continues, Entered
<1>4. CASE SkipStep
  <2>1. PICK s \in Step : /\ status' = [status EXCEPT ![s] = "SKIPPED"]
                          /\ state' = StateAfterStep(s, Entered)
    BY <1>4, FirstPendingType DEF SkipStep
  <2>2. /\ \A t \in Step \ {s} : status'[t] = status[t]
        /\ status'[s] # "PENDING"
    BY <2>1 DEF TypeOK
  <2>3. /\ state' \in {"RUNNING", "WAITING_FOR_EXECUTE", "VERIFYING"}
        /\ state' = "RUNNING" => PendingSteps' # {}
        /\ state' = "VERIFYING" => PendingSteps' = {}
    BY <1>4, <1>e, <2>1, <2>2, StateAfterStepFits DEF SkipStep
  <2> QED
    BY <1>4, <2>3 DEF SkipStep, callVars, StateFitsCall, RestStates
<1>5. CASE FirstAttempt
  BY <1>5, <1>e, <1>x, FirstPendingType DEF FirstAttempt
<1>6. CASE NextAttempt
  BY <1>6, <1>x DEF NextAttempt, StateFitsCall, TypeOK
<1>7. CASE StepCompletes
  BY <1>7 DEF StepCompletes, StateFitsCall, RestStates
<1>8. CASE StepStages
  BY <1>8 DEF StepStages, StateFitsCall, RestStates
<1>9. CASE StepFails
  <2>1. pc' = "settle" /\ status'[at'] = "FAILED"
    BY <1>9 DEF StepFails, TypeOK
  <2> QED
    BY <2>1 DEF StateFitsCall, RestStates
<1>10. CASE AttemptSucceeded
  <2>1. state \in {"RUNNING", "WAITING_FOR_EXECUTE"} /\ status[at] # "PENDING"
    BY <1>10, <1>s DEF AttemptSucceeded, StateFitsCall, SettledStatuses
  <2>2. /\ state' \in {"RUNNING", "WAITING_FOR_EXECUTE", "VERIFYING"}
        /\ state' = "RUNNING" => PendingSteps' # {}
        /\ state' = "VERIFYING" => PendingSteps' = {}
    BY <1>10, <2>1, StateAfterStepFits DEF AttemptSucceeded, TypeOK
  <2> QED
    BY <1>10, <2>2 DEF AttemptSucceeded, StateFitsCall, RestStates
<1>11. CASE AttemptFailed
  BY <1>11, <1>r DEF AttemptFailed
<1>12. CASE AttemptTimedOut
  BY <1>12, <1>r DEF AttemptTimedOut
<1>13. CASE Verify
  <2>1. PICK f : \/ state' = EvaluateCompletion(manifest, f)
                 \/ raised'
    BY <1>13, Zenon DEF Verify
  <2>2. ~raised' => state' \in FinalStates \cup {"WAITING_FOR_EXECUTE"}
    BY <2>1, VerdictRests
  <2> QED
    BY <1>13, <2>2 DEF Verify, StateFitsCall, RestStates
<1>14. CASE VerifyRaises
  BY <1>14 DEF VerifyRaises, StateFitsCall, RestStates
<1> QED
  BY <1>1, <1>2, <1>3, <1>4, <1>5, <1>6, <1>7, <1>8, <1>9, <1>10, <1>11, <1>12,
     <1>13, <1>14 DEF RunStep

\* Nothing leads out of a final state.
LEMMA FinalHasNoExit ==
    ASSUME state \in FinalStates, NEW to
    PROVE  Transitioned(to) = state
<1>1. VALID_TRANSITIONS[state] = {}
  BY DEF VALID_TRANSITIONS, TASKFRAME_STATES, FinalStates, SuccessStates, FailureStates
<1> QED
  BY <1>1 DEF Transitioned, CanTransition

\* A rejection ends a frame that waits, and changes no frame that has ended.
LEMMA RejectedState ==
    ASSUME TypeOK, NEW s \in Step, Reject(s)
    PROVE  /\ state' = state \/ state' = "FAILED_COMPLETION"
           /\ state \in FinalStates => state' = state
           /\ state = "WAITING_FOR_EXECUTE" => state' = "FAILED_COMPLETION"
<1>1. state' = Transitioned("FAILED_COMPLETION")
  BY DEF Reject
<1>2. "FAILED_COMPLETION" \in VALID_TRANSITIONS["WAITING_FOR_EXECUTE"]
  BY DEF VALID_TRANSITIONS, TASKFRAME_STATES
<1> QED
  BY <1>1, <1>2, FinalHasNoExit DEF Transitioned, CanTransition

LEMMA FitOperatorStep ==
    ASSUME TypeOK, Fit, ExecuteStep \/ OperatorStep
    PROVE  Fit'
<1> USE DEF Fit
<1>s. "FAILED_EXECUTION" \in FinalStates /\ "FAILED_COMPLETION" \in FinalStates
  BY DEF FinalStates, FailureStates
<1>1. ASSUME NEW s \in Step, BlockAction(s) PROVE Fit'
  BY <1>s, <1>1 DEF BlockAction, Stop, StateFitsCall, RestStates
<1>2. ASSUME NEW s \in Step, ExecuteAction(s) PROVE Fit'
  BY <1>s, <1>2 DEF ExecuteAction, Executing, Stop, StateFitsCall, RestStates
<1>3. ASSUME NEW s \in Step, FailLiveAction(s) PROVE Fit'
  BY <1>s, <1>3 DEF FailLiveAction, Stop, StateFitsCall, RestStates
<1>4. CASE ExecuteDone
  BY <1>4 DEF ExecuteDone, StateFitsCall, RestStates
<1>5. ASSUME NEW s \in Step, Approve(s) PROVE Fit'
  BY <1>5 DEF Approve, callVars, StateFitsCall, RestStates
<1>6. ASSUME NEW s \in Step, Reject(s) PROVE Fit'
  <2>1. pc = "idle" /\ pc' = "idle" /\ raised' = raised
    BY <1>6 DEF Reject, callVars
  <2> QED
    BY <1>s, <1>6, <2>1, RejectedState DEF StateFitsCall, RestStates
<1>7. CASE StartExecute
  BY <1>7 DEF StartExecute, StateFitsCall, RestStates
<1> QED
  BY <1>1, <1>2, <1>3, <1>4, <1>5, <1>6, <1>7 DEF ExecuteStep, OperatorStep

(***************************************************************************)
(* What success means: the gate's verdict, read back on the frame.          *)
(***************************************************************************)

Gated == GateIsInformed /\ CompletedIsSettled

LEMMA GatedInit == Init => Gated
  BY DEF Init, Gated, GateIsInformed, CompletedIsSettled

\* Every action that is neither in flight, rejected nor failed is executed.
LEMMA ActionValues ==
    ASSUME NEW a \in ACTION_VALUES, a \notin InFlight, a \notin {"REJECTED", "FAILED"}
    PROVE  a \in {"NONE", "EXECUTED"}
  BY DEF ACTION_VALUES, PENDING_ACTION_STATUSES, InFlight

\* A success verdict on the frame, under a contract that does not ask for it
\* early, says that the frame is settled.
LEMMA SuccessIsSettled ==
    ASSUME TypeOK, GateIsInformed, ~AsksForEarlySuccess(manifest),
           NEW bad \in BOOLEAN,
           EvaluateCompletion(manifest, Contents(bad)) \in SuccessStates
    PROVE  /\ ~bad /\ ~frameError
           /\ \A s \in Step : status[s] # "FAILED" /\ action[s] \in {"NONE", "EXECUTED"}
           /\ \A s \in manifest.success_executed_actions : action[s] = "EXECUTED"
           /\ \A s \in manifest.success_outputs : output[s] # "absent"
<1> DEFINE f == Contents(bad)
<1>1. /\ f.status = status /\ f.output = output /\ f.action = action
      /\ f.badValidation = bad /\ f.frameError = frameError
  BY DEF Contents
<1>2. /\ DOMAIN status = Step /\ DOMAIN action = Step /\ DOMAIN output = Step
      /\ \A s \in Step : action[s] \in ACTION_VALUES
  BY DEF TypeOK
<1> HIDE DEF f
<1>3. /\ ~HasFailure(f) /\ ActionsOf(f, InFlight) = {}
      /\ ~ActionsUnmet(manifest, f) /\ ~OutputsUnmet(manifest, f)
  BY SuccessNeeds DEF AsksForEarlySuccess, f
<1>4. ~bad /\ ~frameError /\ \A s \in Step : status[s] # "FAILED"
  BY <1>1, <1>2, <1>3 DEF HasFailure, StepsOf
<1>5. ASSUME NEW s \in Step PROVE action[s] \in {"NONE", "EXECUTED"}
  <2>1. action[s] \notin InFlight
    BY <1>1, <1>2, <1>3 DEF ActionsOf
  <2>2. action[s] \notin {"REJECTED", "FAILED"}
    BY <1>4 DEF GateIsInformed
  <2> QED
    BY <1>2, <2>1, <2>2, ActionValues
<1>6. ASSUME NEW s \in manifest.success_executed_actions PROVE action[s] = "EXECUTED"
  BY <1>1, <1>3 DEF ActionsUnmet, ActionsOf
<1>7. ASSUME NEW s \in manifest.success_outputs PROVE output[s] # "absent"
  BY <1>1, <1>3 DEF OutputsUnmet, OutputsOf
<1> QED
  BY <1>4, <1>5, <1>6, <1>7

\* A frame that is not idle afterwards has not ended.
LEMMA NotIdleGated ==
    ASSUME GateIsInformed,
           pc' \in {"created", "loop", "attempt", "settle", "retry"},
           \A s \in Step : action'[s] \in {"REJECTED", "FAILED"} => action[s] = action'[s],
           frameError' = frameError
    PROVE  Gated'
<1>1. \A s \in Step : action'[s] \in {"REJECTED", "FAILED"} => frameError'
  BY DEF GateIsInformed
<1> QED
  BY <1>1 DEF Gated, GateIsInformed, CompletedIsSettled

LEMMA GatedRunStep ==
    ASSUME TypeOK, SnapshotIsFaithful, Fit, Gated, RunStep
    PROVE  Gated'
<1> USE DEF Gated
<1>1. CASE Prepare
  BY <1>1, NotIdleGated DEF Prepare
<1>2. CASE LeaveLoop
  <2>1. /\ pc' \in {"verify", "idle"}
        /\ state' = state /\ action' = action /\ frameError' = frameError
        /\ manifest' = manifest /\ PendingSteps' = PendingSteps
    BY <1>2 DEF LeaveLoop, frameVars, manifestVars, PendingSteps
  <2>2. state \notin SuccessStates
    BY <1>2 DEF LeaveLoop, Fit, StateFitsCall, SuccessStates
  <2>3. state \notin FailureStates /\ manifest.continue_after_pending => PendingSteps = {}
    BY <1>2 DEF LeaveLoop, Fit, StateFitsCall, Continues, FailureStates
  <2>4. GateIsInformed'
    BY <2>1, <2>3 DEF GateIsInformed
  <2>5. CompletedIsSettled'
    BY <2>1, <2>2 DEF CompletedIsSettled
  <2> QED
    BY <2>4, <2>5
<1>3. CASE ConditionError
  BY <1>3, NotIdleGated DEF ConditionError, callVars
<1>4. CASE SkipStep
  BY <1>4, NotIdleGated DEF SkipStep, callVars
<1>5. CASE FirstAttempt
  BY <1>5, NotIdleGated DEF FirstAttempt, StartAttempt
<1>6. CASE NextAttempt
  BY <1>6, NotIdleGated DEF NextAttempt, StartAttempt
<1>7. CASE StepCompletes
  BY <1>7, NotIdleGated DEF StepCompletes
<1>8. CASE StepStages
  <2>1. \A s \in Step : action'[s] \in {"REJECTED", "FAILED"} => action[s] = action'[s]
    BY <1>8 DEF StepStages, TypeOK
  <2> QED
    BY <1>8, <2>1, NotIdleGated DEF StepStages
<1>9. CASE StepFails
  BY <1>9, NotIdleGated DEF StepFails
<1>10. CASE AttemptSucceeded
  BY <1>10, NotIdleGated DEF AttemptSucceeded
<1>11. CASE AttemptFailed
  BY <1>11, NotIdleGated DEF AttemptFailed, RetryOrFail
<1>12. CASE AttemptTimedOut
  <2>1. \A s \in Step : action'[s] \in {"REJECTED", "FAILED"} => action[s] = action'[s]
    BY <1>12 DEF AttemptTimedOut, Restored, SnapshotIsFaithful, InAttempt
  <2> QED
    BY <1>12, <2>1, NotIdleGated DEF AttemptTimedOut, RetryOrFail
\* What the two ways to leave verify_frame() have in common.
<1>v. ASSUME pc = "verify", status' = status, action' = action,
             frameError' = frameError, manifest' = manifest
      PROVE  GateIsInformed'
  <2>1. state \notin FailureStates
    BY <1>v DEF Fit, StateFitsCall, FailureStates
  <2>2. PendingSteps' = PendingSteps
    BY <1>v DEF PendingSteps
  <2> QED
    BY <1>v, <2>1, <2>2 DEF GateIsInformed
<1>w. pc = "verify" => state \notin SuccessStates
  BY DEF Fit, StateFitsCall, SuccessStates
<1>13. CASE Verify
  <2>1. /\ pc = "verify" /\ status' = status /\ action' = action /\ output' = output
        /\ frameError' = frameError /\ manifest' = manifest
    BY <1>13 DEF Verify, manifestVars
  <2>2. PICK bad \in BOOLEAN :
            /\ badValidation' = bad
            /\ \/ state' = EvaluateCompletion(manifest, Contents(bad))
               \/ state' = state
    <3>1. PICK ok \in BOOLEAN :
              /\ badValidation' = (badValidation \/ ~ok)
              /\ \/ state' = EvaluateCompletion(manifest, Contents(badValidation \/ ~ok))
                 \/ state' = state
      BY <1>13, Zenon DEF Verify
    <3>2. (badValidation \/ ~ok) \in BOOLEAN
      OBVIOUS
    <3> QED
      BY <3>1, <3>2
  <2>3. ASSUME state' \in SuccessStates, ~AsksForEarlySuccess(manifest)
        PROVE  /\ ~badValidation' /\ ~frameError'
               /\ \A s \in Step : status'[s] # "FAILED" /\ action'[s] \in {"NONE", "EXECUTED"}
               /\ \A s \in manifest.success_executed_actions : action'[s] = "EXECUTED"
               /\ \A s \in manifest.success_outputs : output'[s] # "absent"
    <3>1. EvaluateCompletion(manifest, Contents(bad)) \in SuccessStates
      BY <1>w, <2>1, <2>2, <2>3
    <3> QED
      BY <2>1, <2>2, <2>3, <3>1, SuccessIsSettled
  <2>4. CompletedIsSettled'
    BY <2>1, <2>3 DEF CompletedIsSettled, AsksForEarlySuccess
  <2> QED
    BY <1>v, <2>1, <2>4
<1>14. CASE VerifyRaises
  <2>1. /\ pc = "verify" /\ status' = status /\ action' = action /\ state' = state
        /\ frameError' = frameError /\ manifest' = manifest
    BY <1>14 DEF VerifyRaises, manifestVars
  <2>2. CompletedIsSettled'
    BY <1>w, <2>1 DEF CompletedIsSettled
  <2> QED
    BY <1>v, <2>1, <2>2
<1> QED
  BY <1>1, <1>2, <1>3, <1>4, <1>5, <1>6, <1>7, <1>8, <1>9, <1>10, <1>11, <1>12,
     <1>13, <1>14 DEF RunStep

\* Whatever an operator may still do to a frame that has succeeded changes
\* nothing the gate has seen, and a rejection or a failure leaves an error.
LEMMA GatedOperatorStep ==
    ASSUME TypeOK, Fit, Gated, ExecuteStep \/ OperatorStep
    PROVE  Gated'
<1> USE DEF Gated
<1>m. /\ manifest' = manifest /\ status' = status /\ PendingSteps' = PendingSteps
      /\ frameError => frameError' /\ badValidation' = badValidation
  BY DEF ExecuteStep, OperatorStep, BlockAction, ExecuteAction, FailLiveAction, ExecuteDone,
         Approve, Reject, StartExecute, manifestVars, PendingSteps
<1>e. pc = "execute" => state = "EXECUTING_PENDING"
  BY DEF Fit, StateFitsCall
<1>f. /\ "EXECUTING_PENDING" \notin SuccessStates \cup FailureStates
      /\ "FAILED_EXECUTION" \in FailureStates \ SuccessStates
      /\ "WAITING_FOR_EXECUTE" \notin SuccessStates \cup FailureStates
      /\ "FAILED_COMPLETION" \in FailureStates \ SuccessStates
      /\ "VERIFYING" \notin SuccessStates
      /\ FinalStates = SuccessStates \cup FailureStates
  BY DEF SuccessStates, FailureStates, FinalStates
\* A step of an execution, which ends the frame or goes on.
<1>x. ASSUME pc = "execute", NEW s \in Step, NEW v \in {"FAILED", "EXECUTED"},
             action' = [action EXCEPT ![s] = v], v = "FAILED" => frameError',
             \/ pc' = "execute" /\ state' = state
             \/ pc' = "idle" /\ state' = "FAILED_EXECUTION"
      PROVE  Gated'
  <2>1. \A t \in Step : action'[t] \in {"REJECTED", "FAILED"} => frameError'
    BY <1>m, <1>x DEF GateIsInformed, TypeOK
  <2>2. state' \notin FailureStates /\ manifest.continue_after_pending => PendingSteps = {}
    BY <1>e, <1>f, <1>x DEF GateIsInformed
  <2>3. GateIsInformed'
    BY <1>m, <2>1, <2>2 DEF GateIsInformed
  <2>4. CompletedIsSettled'
    BY <1>e, <1>f, <1>x DEF CompletedIsSettled
  <2> QED
    BY <2>3, <2>4
<1>1. ASSUME NEW s \in Step, BlockAction(s) PROVE Gated'
  BY <1>1, <1>x DEF BlockAction, Executing, Stop
<1>2. ASSUME NEW s \in Step, ExecuteAction(s) PROVE Gated'
  <2>1. \/ pc' = "execute" /\ state' = state
        \/ pc' = "idle" /\ state' = "FAILED_EXECUTION"
    BY <1>2 DEF ExecuteAction, Executing, Stop
  <2> QED
    BY <1>2, <1>x, <2>1 DEF ExecuteAction, Executing
<1>3. ASSUME NEW s \in Step, FailLiveAction(s) PROVE Gated'
  BY <1>3, <1>x DEF FailLiveAction, Executing, Stop
<1>4. CASE ExecuteDone
  <2>1. /\ pc = "execute" /\ pc' = "verify" /\ action' = action /\ frameError' = frameError
    BY <1>4 DEF ExecuteDone
  <2> QED
    BY <1>e, <1>f, <1>m, <2>1 DEF GateIsInformed, CompletedIsSettled
<1>5. ASSUME NEW s \in Step, Approve(s) PROVE Gated'
  <2>1. /\ pc = "idle" /\ pc' = "idle" /\ state' = state /\ frameError' = frameError
        /\ action[s] = "PENDING_APPROVAL" /\ output' = output
        /\ action' = [action EXCEPT ![s] = "APPROVED"]
    BY <1>5 DEF Approve, callVars
  <2>2. \A t \in Step : action'[t] \in {"REJECTED", "FAILED"} => frameError'
    BY <2>1 DEF GateIsInformed, TypeOK
  <2>3. GateIsInformed'
    BY <1>m, <2>1, <2>2 DEF GateIsInformed
  <2>4. ~ (state \in SuccessStates /\ ~AsksForEarlySuccess(manifest))
    BY <2>1 DEF CompletedIsSettled
  <2>5. CompletedIsSettled'
    BY <1>m, <2>1, <2>4 DEF CompletedIsSettled, AsksForEarlySuccess
  <2> QED
    BY <2>3, <2>5
<1>6. ASSUME NEW s \in Step, Reject(s) PROVE Gated'
  <2>1. /\ pc = "idle" /\ pc' = "idle" /\ frameError'
        /\ action[s] = "PENDING_APPROVAL" /\ output' = output
        /\ action' = [action EXCEPT ![s] = "REJECTED"]
    BY <1>6 DEF Reject, callVars
  <2>2. state' = state \/ state' = "FAILED_COMPLETION"
    BY <1>6, RejectedState
  <2>3. GateIsInformed'
    BY <1>f, <1>m, <2>1, <2>2 DEF GateIsInformed
  <2>4. ~ (state \in SuccessStates /\ ~AsksForEarlySuccess(manifest))
    BY <2>1 DEF CompletedIsSettled
  <2>5. CompletedIsSettled'
    BY <1>f, <1>m, <2>1, <2>2, <2>4 DEF CompletedIsSettled, AsksForEarlySuccess
  <2> QED
    BY <2>3, <2>5
<1>7. CASE StartExecute
  <2>1. /\ pc = "idle" /\ pc' = "execute" /\ state = "WAITING_FOR_EXECUTE"
        /\ action' = action /\ frameError' = frameError
    BY <1>7 DEF StartExecute
  <2> QED
    BY <1>f, <1>m, <2>1 DEF GateIsInformed, CompletedIsSettled
<1> QED
  BY <1>1, <1>2, <1>3, <1>4, <1>5, <1>6, <1>7 DEF ExecuteStep, OperatorStep

(***************************************************************************)
(* The inductive invariant, and the safety properties it implies.           *)
(***************************************************************************)

LEMMA IndInvParts == IndInv <=> TypeOK /\ Rollback /\ Once /\ Order /\ Fit /\ Gated
  BY DEF IndInv, Rollback, Once, Order, Fit, Gated

LEMMA IndInvNext ==
    ASSUME IndInv, [Next]_vars
    PROVE  IndInv'
<1>1. TypeOK /\ Rollback /\ Once /\ Order /\ Fit /\ Gated
  BY IndInvParts
<1>2. /\ AttemptProgress /\ SnapshotIsFaithful
      /\ LiveCalls
  BY <1>1 DEF Rollback, Once
<1>3. TypeOK'
  BY <1>1, TypeNext
<1>4. CASE RunStep
  <2>1. Rollback' /\ Once'
    BY <1>1, <1>4, RollbackRunStep, OnceRunStep
  <2>2. Order' /\ Fit' /\ Gated'
    BY <1>1, <1>2, <1>4, OrderRunStep, FitRunStep, GatedRunStep
  <2> QED
    BY <1>3, <2>1, <2>2 DEF IndInv, Rollback, Once, Order, Fit, Gated
<1>5. CASE ExecuteStep \/ OperatorStep
  <2>1. Rollback' /\ Once'
    BY <1>1, <1>2, <1>5, RollbackOperatorStep, OnceOperatorStep
  <2>2. Order' /\ Fit' /\ Gated'
    BY <1>1, <1>5, OrderOperatorStep, FitOperatorStep, GatedOperatorStep
  <2> QED
    BY <1>3, <2>1, <2>2 DEF IndInv, Rollback, Once, Order, Fit, Gated
<1>6. CASE UNCHANGED vars
  <2>1. Rollback'
    BY <1>1, <1>6 DEF vars, manifestVars, frameVars, callVars, Rollback,
       NoTraceOfFailedAttempts, SnapshotIsFaithful, AttemptProgress, InAttempt, Consistent
  <2>2. Once'
    BY <1>1, <1>6 DEF vars, manifestVars, frameVars, callVars, Once, LiveCalls, LiveEffectOnce
  <2>3. Order'
    BY <1>1, <1>6 DEF vars, manifestVars, frameVars, callVars, Order, StepsInOrder,
       RunIsOnStep, PendingSteps, Untroubled
  <2>4. Fit'
    BY <1>1, <1>6 DEF vars, manifestVars, frameVars, callVars, Fit, StateFitsCall,
       RestStates, PendingSteps
  <2>5. Gated'
    BY <1>1, <1>6 DEF vars, manifestVars, frameVars, callVars, Gated, GateIsInformed,
       CompletedIsSettled, PendingSteps, AsksForEarlySuccess
  <2> QED
    BY <1>3, <2>1, <2>2, <2>3, <2>4, <2>5 DEF IndInv, Rollback, Once, Order, Fit, Gated
<1> QED
  BY <1>4, <1>5, <1>6 DEF Next

\* The strengthened invariant holds in every state of every run.
THEOREM InvariantCorrect == Spec => []IndInv
<1>1. Init => IndInv
  BY TypeInit, RollbackInit, OnceInit, OrderInit, FitInit, GatedInit, IndInvParts
<1>2. IndInv /\ [Next]_vars => IndInv'
  BY IndInvNext
<1> QED
  BY <1>1, <1>2, PTL DEF Spec

\* No step of a manifest is started before every earlier one went through,
\* whatever was retried, timed out, skipped or staged before.
THEOREM StepsInOrderCorrect == Spec => []StepsInOrder
<1>1. IndInv => StepsInOrder
  BY DEF IndInv
<1> QED
  BY <1>1, InvariantCorrect, PTL

\* A call that comes back without an exception leaves the frame waiting for an
\* approval or ended.
THEOREM RestStatesCorrect == Spec => []RestStates
<1>1. IndInv => RestStates
  BY DEF IndInv
<1> QED
  BY <1>1, InvariantCorrect, PTL

\* A frame that ends in success has nothing failed, rejected or in flight, and
\* everything the contract names.
THEOREM CompletedIsSettledCorrect == Spec => []CompletedIsSettled
<1>1. IndInv => CompletedIsSettled
  BY DEF IndInv
<1> QED
  BY <1>1, InvariantCorrect, PTL

\* With continue_after_pending, success means that every step was run or skipped.
THEOREM CompletedRanCorrect == Spec => []CompletedRanEveryStep
<1>1. SuccessStates \cap FailureStates = {}
  BY DEF SuccessStates, FailureStates
<1>2. IndInv => CompletedRanEveryStep
  BY <1>1 DEF IndInv, GateIsInformed, CompletedRanEveryStep
<1> QED
  BY <1>2, InvariantCorrect, PTL

\* No operation that is still possible on a frame that has ended changes its
\* verdict, its outputs, its steps or the outside world.
THEOREM FinalIsFrozenCorrect == Spec => FinalIsFrozen
<1> DEFINE Frozen == pc = "idle" /\ state \in FinalStates =>
                        /\ state' = state
                        /\ UNCHANGED <<output, status, calls>>
<1>1. IndInv /\ [Next]_vars => [Frozen]_vars
  <2> SUFFICES ASSUME IndInv, Next, pc = "idle", state \in FinalStates
               PROVE  state' = state /\ UNCHANGED <<output, status, calls>>
    OBVIOUS
  <2>1. PICK s \in Step : Approve(s) \/ Reject(s)
    <3>1. state # "WAITING_FOR_EXECUTE"
      BY DEF FinalStates, SuccessStates, FailureStates
    <3>2. ~RunStep /\ ~ExecuteStep
      BY DEF RunStep, Prepare, LeaveLoop, ConditionError, SkipStep, FirstAttempt, NextAttempt,
         StepCompletes, StepStages, StepFails, AttemptSucceeded, AttemptFailed, AttemptTimedOut,
         Verify, VerifyRaises, ExecuteStep, BlockAction, ExecuteAction, FailLiveAction,
         Executing, ExecuteDone
    <3> QED
      BY <3>1, <3>2 DEF Next, OperatorStep, StartExecute
  <2>2. CASE Approve(s)
    BY <2>2 DEF Approve, manifestVars
  <2>3. CASE Reject(s)
    BY <2>3, RejectedState DEF Reject, manifestVars, IndInv
  <2> QED
    BY <2>1, <2>2, <2>3
<1> QED
  BY <1>1, InvariantCorrect, PTL DEF Spec, FinalIsFrozen

\* Between two attempts nothing of a failed or timed-out attempt is left: an
\* action exists exactly for the steps that are STAGED.
THEOREM RollbackCorrect == Spec => []NoTraceOfFailedAttempts
<1>1. IndInv => NoTraceOfFailedAttempts
  BY DEF IndInv
<1> QED
  BY <1>1, InvariantCorrect, PTL

\* However many actions stand for a business effect and however often the
\* operator approves and executes, the effect is sent out at most once.
THEOREM LiveEffectOnceCorrect == Spec => []LiveEffectOnce
<1>1. IndInv => LiveEffectOnce
  BY DEF IndInv
<1> QED
  BY <1>1, InvariantCorrect, PTL

(***************************************************************************)
(* Orchestrator implements ActionGate.                                      *)
(***************************************************************************)

LEMMA GateInit == Init => Gate!Init
<1> SUFFICES ASSUME Init PROVE Gate!Init
  OBVIOUS
<1>1. manifest \in Manifest
  BY OrchestratorAssumption DEF Init
<1>2. manifest.effect \in [Step -> Step]
  BY <1>1 DEF Manifest
<1> QED
  BY <1>2 DEF Init, Gate!Init

\* The steps of a run that touch no action are stutters of the abstract machine.
LEMMA GateStutter ==
    ASSUME manifest' = manifest, action' = action, calls' = calls
    PROVE  UNCHANGED Gate!vars
  BY DEF Gate!vars

\* The run stages an action, and withdraws it when the attempt is timed out.
LEMMA GateRunStep ==
    ASSUME IndInv, RunStep
    PROVE  [Gate!Next]_(Gate!vars)
<1>1. calls' = calls /\ manifest' = manifest
  BY DEF RunStep, Prepare, LeaveLoop, ConditionError, SkipStep, FirstAttempt, NextAttempt,
         StartAttempt, StepCompletes, StepStages, StepFails, AttemptSucceeded, AttemptFailed,
         AttemptTimedOut, Verify, VerifyRaises, manifestVars
<1>2. TypeOK /\ at \in Step
  BY DEF IndInv, TypeOK
<1>3. CASE StepStages
  <2>1. /\ action[at] = "NONE"
        /\ action' = [action EXCEPT ![at] = "PENDING_APPROVAL"]
    BY <1>3 DEF StepStages, IndInv, AttemptProgress
  <2>2. Gate!Stage(at)
    BY <1>1, <2>1 DEF Gate!Stage, Gate!Move
  <2> QED
    BY <1>2, <2>2 DEF Gate!Next
<1>4. CASE AttemptTimedOut
  <2>1. /\ action' = snapshot.action
        /\ \A s \in Step \ {at} : snapshot.action[s] = action[s]
        /\ snapshot.action[at] = "NONE" /\ action[at] \in {"NONE", "PENDING_APPROVAL"}
    BY <1>4 DEF AttemptTimedOut, Restored, IndInv, SnapshotIsFaithful, AttemptProgress, InAttempt
  <2>2. action \in [Step -> ACTION_VALUES] /\ snapshot.action \in [Step -> ACTION_VALUES]
    BY <1>2 DEF TypeOK
  <2>3. action' = [action EXCEPT ![at] = "NONE"]
    BY <1>2, <2>1, <2>2
  <2>4. CASE action[at] = "NONE"
    <3>1. action' = action
      BY <2>2, <2>3, <2>4
    <3> QED
      BY <1>1, <3>1, GateStutter
  <2>5. CASE action[at] = "PENDING_APPROVAL"
    <3>1. Gate!Withdraw(at)
      BY <1>1, <2>3, <2>5 DEF Gate!Withdraw, Gate!Move
    <3> QED
      BY <1>2, <3>1 DEF Gate!Next
  <2> QED
    BY <2>1, <2>4, <2>5
<1>5. CASE ~StepStages /\ ~AttemptTimedOut
  <2>1. action' = action
    BY <1>5 DEF RunStep, Prepare, LeaveLoop, ConditionError, SkipStep, FirstAttempt, NextAttempt,
         StartAttempt, StepCompletes, StepFails, AttemptSucceeded, AttemptFailed,
         Verify, VerifyRaises, frameVars
  <2> QED
    BY <1>1, <2>1, GateStutter
<1> QED
  BY <1>3, <1>4, <1>5

\* The approvals and executions are the abstract ones; what is executed has no
\* duplicate that was executed, and so none that was called.
LEMMA GateOperatorStep ==
    ASSUME IndInv, ExecuteStep \/ OperatorStep
    PROVE  [Gate!Next]_(Gate!vars)
<1>1. TypeOK /\ Once
  BY DEF IndInv, Once
<1>2. ASSUME NEW s \in Step, Executing(s), Duplicates(s) = {}
      PROVE  Gate!Fresh(s)
  <2>1. \A t \in Step : manifest.effect[t] = manifest.effect[s] => action[t] # "EXECUTED"
    BY <1>2 DEF Duplicates
  <2>2. \A t \in Step : calls[t] \in Nat /\ (calls[t] > 0 => action[t] = "EXECUTED")
    BY <1>1, <1>2, ExecutingFacts DEF TypeOK
  <2> QED
    BY <2>1, <2>2 DEF Gate!Fresh
<1>3. ASSUME NEW s \in Step, BlockAction(s) PROVE [Gate!Next]_(Gate!vars)
  <2>1. action[s] = "APPROVED"
    BY <1>1, <1>3, ExecutingFacts DEF BlockAction
  <2>2. Gate!Block(s)
    BY <1>3, <2>1 DEF BlockAction, manifestVars, Gate!Block, Gate!Move
  <2> QED
    BY <2>2 DEF Gate!Next
<1>4. ASSUME NEW s \in Step, ExecuteAction(s) PROVE [Gate!Next]_(Gate!vars)
  <2>1. action[s] = "APPROVED" /\ Gate!Fresh(s)
    BY <1>1, <1>2, <1>4, ExecutingFacts DEF ExecuteAction
  <2>2. Gate!DryRun(s) \/ Gate!CallLive(s)
    BY <1>4, <2>1 DEF ExecuteAction, Gate!DryRun, Gate!CallLive, Gate!Move
  <2> QED
    BY <2>2 DEF Gate!Next
<1>5. ASSUME NEW s \in Step, FailLiveAction(s) PROVE [Gate!Next]_(Gate!vars)
  <2>1. action[s] = "APPROVED" /\ Gate!Fresh(s)
    BY <1>1, <1>2, <1>5, ExecutingFacts DEF FailLiveAction
  <2>2. Gate!CallLive(s)
    BY <1>5, <2>1 DEF FailLiveAction, Gate!CallLive, Gate!Move
  <2> QED
    BY <2>2 DEF Gate!Next
<1>6. CASE ExecuteDone
  BY <1>6, GateStutter DEF ExecuteDone, manifestVars
<1>7. ASSUME NEW s \in Step, Approve(s) PROVE [Gate!Next]_(Gate!vars)
  <2>1. Gate!Approve(s)
    BY <1>7 DEF Approve, manifestVars, Gate!Approve, Gate!Move
  <2> QED
    BY <2>1 DEF Gate!Next
<1>8. ASSUME NEW s \in Step, Reject(s) PROVE [Gate!Next]_(Gate!vars)
  <2>1. Gate!Reject(s)
    BY <1>8 DEF Reject, manifestVars, Gate!Reject, Gate!Move
  <2> QED
    BY <2>1 DEF Gate!Next
<1>9. CASE StartExecute
  BY <1>9, GateStutter DEF StartExecute, manifestVars
<1> QED
  BY <1>3, <1>4, <1>5, <1>6, <1>7, <1>8, <1>9 DEF ExecuteStep, OperatorStep

\* Every run of a frame is, seen through its actions and live calls, a run of
\* ActionGate: no action is performed that was not approved, nothing follows a
\* rejection, and no effect is called live twice.
THEOREM ImplementsActionGate == Spec => GateSpec
<1>1. IndInv /\ [Next]_vars => [Gate!Next]_(Gate!vars)
  <2> SUFFICES ASSUME IndInv, [Next]_vars PROVE [Gate!Next]_(Gate!vars)
    OBVIOUS
  <2>1. CASE UNCHANGED vars
    BY <2>1, GateStutter DEF vars, manifestVars, frameVars
  <2> QED
    BY <2>1, GateRunStep, GateOperatorStep DEF Next
<1> QED
  BY <1>1, GateInit, InvariantCorrect, PTL DEF Spec, GateSpec, Gate!Spec
=============================================================================
