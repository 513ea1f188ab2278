------------------------------ MODULE TaskFrame ------------------------------
(***************************************************************************)
(* The state machines declared in runtime/taskframe.py: the states of a     *)
(* TaskFrame and the transitions transition_state() accepts, the statuses  *)
(* of a step, and the life cycle of a pending action (a side effect that   *)
(* waits for a human approval).                                            *)
(***************************************************************************)

TASKFRAME_STATES ==
    { "CREATED", "VALIDATING", "READY", "RUNNING", "WAITING_FOR_INPUT",
      "WAITING_FOR_EXECUTE", "EXECUTING_PENDING", "VERIFYING", "COMPLETED",
      "COMPLETED_NO_DATA", "FAILED_VALIDATION", "FAILED_EXECUTION",
      "FAILED_COMPLETION", "CANCELLED", "EXPIRED" }

VALID_TRANSITIONS ==
    [ s \in TASKFRAME_STATES |->
        CASE s = "CREATED"    -> {"VALIDATING", "CANCELLED"}
          [] s = "VALIDATING" -> {"READY", "FAILED_VALIDATION"}
          [] s = "READY"      -> {"RUNNING", "CANCELLED"}
          [] s = "RUNNING"    -> {"WAITING_FOR_INPUT", "WAITING_FOR_EXECUTE",
                                  "VERIFYING", "FAILED_EXECUTION", "CANCELLED"}
          [] s = "WAITING_FOR_INPUT"   -> {"RUNNING", "CANCELLED"}
          [] s = "WAITING_FOR_EXECUTE" -> {"EXECUTING_PENDING", "CANCELLED",
                                           "FAILED_COMPLETION"}
          [] s = "EXECUTING_PENDING"   -> {"VERIFYING", "FAILED_EXECUTION"}
          [] s = "VERIFYING"  -> {"COMPLETED", "COMPLETED_NO_DATA",
                                  "FAILED_COMPLETION"}
          [] OTHER            -> {} ]

\* transition_state() raises TaskFrameStateError unless this holds.
CanTransition(from, to) == to \in VALID_TRANSITIONS[from]

SuccessStates == {"COMPLETED", "COMPLETED_NO_DATA"}

FailureStates == {"FAILED_VALIDATION", "FAILED_EXECUTION", "FAILED_COMPLETION"}

\* The states a run can end in.  CANCELLED and EXPIRED are declared but never
\* assigned by the runtime.
FinalStates == SuccessStates \cup FailureStates

STEP_STATUSES == {"PENDING", "RUNNING", "COMPLETED", "STAGED", "FAILED", "SKIPPED"}

\* What run_next_step() counts as the success of an attempt.
SettledStatuses == {"COMPLETED", "STAGED", "SKIPPED"}

\* The statuses of a pending action; NONE when the step has staged nothing.
PENDING_ACTION_STATUSES ==
    {"PENDING_APPROVAL", "APPROVED", "REJECTED", "EXECUTING", "EXECUTED", "FAILED"}

ACTION_VALUES == PENDING_ACTION_STATUSES \cup {"NONE"}

\* The statuses the completion gate and the approval commands count as in flight.
InFlight == {"PENDING_APPROVAL", "APPROVED", "EXECUTING"}

PENDING_ACTION_TRANSITIONS ==
    [ s \in PENDING_ACTION_STATUSES |->
        CASE s = "PENDING_APPROVAL" -> {"APPROVED", "REJECTED", "FAILED"}
          [] s = "APPROVED"         -> {"EXECUTING", "FAILED"}
          [] s = "EXECUTING"        -> {"EXECUTED", "FAILED"}
          [] OTHER                  -> {} ]

\* What a step's output alias holds: nothing yet, a value _is_empty_value()
\* accepts (None, "", [], {}), or data.
OUTPUT_VALUES == {"absent", "empty", "value"}
=============================================================================
