----------------------------- MODULE ActionGate -----------------------------
(***************************************************************************)
(* What the runtime promises about side effects (docs/runtime_contracts.md, *)
(* docs/recovery_and_idempotency.md), without saying how: an action is      *)
(* staged, a human approves or rejects it, only an approved action is       *)
(* performed, nothing follows a rejection, and a live call is made at most  *)
(* once for the business effect it stands for.  Orchestrator is shown to    *)
(* implement this module.                                                   *)
(***************************************************************************)
EXTENDS Naturals, TaskFrame

CONSTANT Action

VARIABLES
    effect,     \* action -> the business effect (idempotency class) it performs
    status,     \* action -> NONE, or the status of the staged action
    calls       \* action -> live tool calls made on its behalf

vars == <<effect, status, calls>>

Init == /\ effect \in [Action -> Action]
        /\ status = [a \in Action |-> "NONE"]
        /\ calls = [a \in Action |-> 0]

Move(a, from, to) == /\ status[a] = from
                     /\ status' = [status EXCEPT ![a] = to]
                     /\ UNCHANGED effect

Stage(a) == Move(a, "NONE", "PENDING_APPROVAL") /\ UNCHANGED calls

\* The attempt that staged the action is rolled back before anyone saw it.
Withdraw(a) == Move(a, "PENDING_APPROVAL", "NONE") /\ UNCHANGED calls

Approve(a) == Move(a, "PENDING_APPROVAL", "APPROVED") /\ UNCHANGED calls

Reject(a) == Move(a, "PENDING_APPROVAL", "REJECTED") /\ UNCHANGED calls

\* No action with the effect of a has been executed, or called live.
Fresh(a) == \A b \in Action : effect[b] = effect[a] =>
                                  status[b] # "EXECUTED" /\ calls[b] = 0

Block(a) == Move(a, "APPROVED", "FAILED") /\ UNCHANGED calls

DryRun(a) == Fresh(a) /\ Move(a, "APPROVED", "EXECUTED") /\ UNCHANGED calls

\* A live call may fail after the outside world has changed.
CallLive(a) == /\ Fresh(a)
               /\ \E to \in {"EXECUTED", "FAILED"} : Move(a, "APPROVED", to)
               /\ calls' = [calls EXCEPT ![a] = @ + 1]

Next == \E a \in Action :
           \/ Stage(a) \/ Withdraw(a) \/ Approve(a) \/ Reject(a)
           \/ Block(a) \/ DryRun(a) \/ CallLive(a)

Spec == Init /\ [][Next]_vars
=============================================================================
