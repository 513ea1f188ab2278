--------------------------- MODULE MCOrchestrator ---------------------------
(***************************************************************************)
(* Orchestrator on three-step manifests.  Each manifest below is the small  *)
(* form of one the repository ships, or of a combination of options its     *)
(* loader accepts.                                                          *)
(***************************************************************************)
EXTENDS Orchestrator

All(v) == [s \in 1..NumSteps |-> v]

Kinds(a, b, c) == <<a, b, c>>

\* Three tool steps, one attempt each, no contract.
Plain ==
    [ kind |-> Kinds("tool", "tool", "tool"),
      max_attempts |-> All(1),
      retry_on |-> All(Tags),
      effect |-> [s \in 1..NumSteps |-> s],
      when |-> {}, timeout_seconds |-> {},
      validations |-> FALSE,
      continue_after_pending |-> FALSE,
      allow_pending_approval |-> FALSE,
      success_outputs |-> {}, acceptable_empty_outputs |-> {},
      success_pending_actions |-> {}, success_executed_actions |-> {},
      required_state |-> "" ]

\* manifests/customer_status_llm_e2e: check, look up, stage a reply; any step may time out
\* and is retried.
Reply ==
    [Plain EXCEPT !.kind = Kinds("validate_required_inputs", "tool", "prepare"),
                  !.max_attempts = All(2),
                  !.timeout_seconds = {1, 2, 3},
                  !.validations = TRUE,
                  !.allow_pending_approval = TRUE,
                  !.success_outputs = {2},
                  !.success_pending_actions = {3}]

\* manifests/supplier_invoice_match: two staged writes, the run goes on after the first.
InvoiceMatch ==
    [Plain EXCEPT !.kind = Kinds("tool", "prepare", "prepare"),
                  !.validations = TRUE,
                  !.continue_after_pending = TRUE,
                  !.allow_pending_approval = TRUE,
                  !.success_outputs = {1},
                  !.acceptable_empty_outputs = {1},
                  !.success_pending_actions = {2},
                  !.success_executed_actions = {2},
                  !.required_state = "COMPLETED"]

\* manifests/smoke_channel_branch_reply: conditional staged steps.
Branches ==
    [Plain EXCEPT !.kind = Kinds("tool", "pending", "pending"),
                  !.when = {2, 3},
                  !.timeout_seconds = {2},
                  !.max_attempts = [s \in 1..NumSteps |-> s],
                  !.allow_pending_approval = TRUE,
                  !.success_pending_actions = {3}]

\* manifests/smoke_whatsapp_stage_send, three sends of which two are one effect.
SameEffect ==
    [Plain EXCEPT !.kind = Kinds("pending", "pending", "pending"),
                  !.effect = <<1, 1, 3>>,
                  !.continue_after_pending = TRUE,
                  !.allow_pending_approval = TRUE]

\* manifests/smoke_retry_*: retries by failure class, and a validate step.
Retries ==
    [Plain EXCEPT !.kind = Kinds("tool", "validate", "tool"),
                  !.max_attempts = All(3),
                  !.retry_on = <<{"transient"}, Tags, {"timeout", "unknown"}>>,
                  !.timeout_seconds = {2, 3},
                  !.when = {3},
                  !.success_outputs = {1},
                  !.acceptable_empty_outputs = {1}]

\* A step that may be retried after an action was staged.
RetryAfterPending ==
    [Plain EXCEPT !.kind = Kinds("pending", "tool", "pending"),
                  !.max_attempts = <<1, 2, 2>>,
                  !.timeout_seconds = {3},
                  !.continue_after_pending = TRUE,
                  !.allow_pending_approval = TRUE,
                  !.success_executed_actions = {1, 3}]

\* invoiceops.process_supplier_invoice_v1: staged writes in the middle, required_state
\* COMPLETED, no pending option.
EarlyStop ==
    [Plain EXCEPT !.kind = Kinds("validate", "pending", "tool"),
                  !.required_state = "COMPLETED"]

\* manifests/llm_customer_status_reply: required_state is the waiting state itself.
StayWaiting ==
    [Plain EXCEPT !.kind = Kinds("tool", "tool", "prepare"),
                  !.success_pending_actions = {3},
                  !.when = {3},
                  !.required_state = "WAITING_FOR_EXECUTE"]

Shipped == {Plain, Reply, InvoiceMatch, Branches, SameEffect, Retries,
            RetryAfterPending, EarlyStop, StayWaiting}

\* Every placing of tools, staged actions and input checks, under every pending
\* option; the later steps may time out and are retried.
Sweep ==
    { [Plain EXCEPT !.kind = k,
                    !.max_attempts = <<1, 2, 2>>,
                    !.timeout_seconds = {2, 3},
                    !.continue_after_pending = continue,
                    !.allow_pending_approval = allow,
                    !.success_executed_actions = executed] :
        k \in [1..NumSteps -> {"tool", "pending", "validate_required_inputs"}],
        continue, allow \in BOOLEAN,
        executed \in {{}, {2}} }

AllManifests == Shipped \cup Sweep

PartialApproval == {[InvoiceMatch EXCEPT !.validations = FALSE]}
=============================================================================
