----------------------------- MODULE GateProofs -----------------------------
(***************************************************************************)
(* Facts about the completion gate, for every contract and every frame.    *)
(***************************************************************************)
EXTENDS CompletionGate, TLAPS

\* The states the gate can decide on.
Verdicts == {"WAITING_FOR_EXECUTE", "COMPLETED", "COMPLETED_NO_DATA",
             "FAILED_VALIDATION", "FAILED_COMPLETION"}

\* Whatever the contract asks and the frame holds, the gate decides on one of
\* these states.
LEMMA VerdictType ==
    ASSUME NEW m, NEW f, m.required_state \in RequiredStates
    PROVE  EvaluateCompletion(m, f) \in Verdicts
<1>2. \A d \in Verdicts : RequiredOr(m, d) \in Verdicts
  BY DEF RequiredOr, RequiredStates, Verdicts
<1>3. FailureVerdict(f) \in Verdicts
  BY DEF FailureVerdict, Verdicts
<1>4. PendingVerdict(m, f) \in Verdicts
  <2>1. "WAITING_FOR_EXECUTE" \in Verdicts /\ "FAILED_COMPLETION" \in Verdicts
    BY DEF Verdicts
  <2> QED
    BY <1>2, <2>1 DEF PendingVerdict
<1>5. SuccessVerdict(m, f) \in Verdicts
  <2>1. {"COMPLETED", "COMPLETED_NO_DATA", "FAILED_COMPLETION"} \subseteq Verdicts
    BY DEF Verdicts
  <2> QED
    BY <1>2, <2>1 DEF SuccessVerdict
<1>6. "FAILED_COMPLETION" \in Verdicts
  BY DEF Verdicts
<1> QED
  BY <1>3, <1>4, <1>5, <1>6 DEF EvaluateCompletion

\* A frame succeeds only when nothing has failed and every criterion of the
\* contract is met, or while actions are in flight under a contract that forbids
\* to wait, names actions to be staged and asks for a success state (rules 1 to 10).
LEMMA SuccessNeeds ==
    ASSUME NEW m, NEW f, EvaluateCompletion(m, f) \in SuccessStates
    PROVE  /\ ~HasFailure(f)
           /\ \/ /\ ActionsOf(f, InFlight) = {}
                 /\ ~ActionsUnmet(m, f) /\ ~OutputsUnmet(m, f)
              \/ /\ ~m.allow_pending_approval
                 /\ m.success_pending_actions # {}
                 /\ m.required_state \in SuccessStates
<1>1. /\ "FAILED_COMPLETION" \notin SuccessStates /\ "FAILED_VALIDATION" \notin SuccessStates
      /\ "WAITING_FOR_EXECUTE" \notin SuccessStates
  BY DEF SuccessStates
<1>2. ~HasFailure(f)
  BY <1>1 DEF EvaluateCompletion, FailureVerdict
<1>3. CASE ActionsOf(f, InFlight) = {}
  BY <1>1, <1>2, <1>3 DEF EvaluateCompletion
<1>4. CASE ActionsOf(f, InFlight) # {}
  <2>1. PendingVerdict(m, f) \in SuccessStates
    BY <1>2, <1>4 DEF EvaluateCompletion
  <2> QED
    BY <1>1, <1>2, <2>1 DEF PendingVerdict, RequiredOr
<1> QED
  BY <1>3, <1>4

\* The gate lets a frame be COMPLETED only when nothing has failed and every
\* action the contract wants executed is, and with an action in flight only under
\* a contract that forbids to wait and asks for COMPLETED (rules 1 to 5).
THEOREM CompletedVerdict ==
    ASSUME NEW m, NEW f, EvaluateCompletion(m, f) = "COMPLETED"
    PROVE  /\ ~HasFailure(f)
           /\ \/ /\ ActionsOf(f, InFlight) = {}
                 /\ m.success_executed_actions \subseteq ActionsOf(f, {"EXECUTED"})
              \/ /\ ActionsOf(f, InFlight) # {}
                 /\ ~m.allow_pending_approval
                 /\ m.required_state = "COMPLETED"
<1>1. ~HasFailure(f)
  <2>1. FailureVerdict(f) # "COMPLETED"
    BY DEF FailureVerdict
  <2> QED
    BY <2>1 DEF EvaluateCompletion
<1>2. CASE ActionsOf(f, InFlight) = {}
  <2>1. ~ActionsUnmet(m, f)
    BY <1>1, <1>2 DEF EvaluateCompletion
  <2> QED
    BY <1>1, <1>2, <2>1 DEF ActionsUnmet
<1>3. CASE ActionsOf(f, InFlight) # {}
  <2>1. PendingVerdict(m, f) = "COMPLETED"
    BY <1>1, <1>3 DEF EvaluateCompletion
  <2>2. ~m.allow_pending_approval /\ m.required_state = "COMPLETED"
    BY <2>1 DEF PendingVerdict, RequiredOr
  <2> QED
    BY <1>1, <1>3, <2>2
<1> QED
  BY <1>2, <1>3
=============================================================================
