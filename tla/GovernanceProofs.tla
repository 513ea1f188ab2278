-------------------------- MODULE GovernanceProofs --------------------------
(***************************************************************************)
(* Proofs about Governance, for every number of packs, commands, callers,  *)
(* evaluations and crashes, every profile and every place of the packs:     *)
(* nobody calls what was disabled before he asked, policies get lost only   *)
(* where commands overlap or are interrupted, and READY is runnable.        *)
(***************************************************************************)
EXTENDS Governance, TLAPS

(***************************************************************************)
(* Facts about policies.                                                    *)
(***************************************************************************)

LEMMA EntryFacts ==
    /\ \A e \in Entry \cup {NoEntry} :
          /\ e.recorded \in BOOLEAN /\ e.classification \in Classes
          /\ e.enabled \subseteq ENVIRONMENTS
          /\ e.recorded => e \in Entry
    /\ ~NoEntry.recorded
    /\ \A env : ~CheckPackAllowed(NoEntry, env)
<1>1. /\ NoEntry.recorded = FALSE /\ NoEntry.classification = "unknown"
      /\ NoEntry.enabled = {}
  BY DEF NoEntry
<1>2. \A e \in Entry : /\ e.recorded = TRUE /\ e.classification \in Classes
                      /\ e.enabled \subseteq ENVIRONMENTS
  BY DEF Entry, Classes
<1> QED
  BY <1>1, <1>2 DEF Classes, CheckPackAllowed

LEMMA AnyFacts == AnyPack \in Pack /\ AnyEnv \in Envs /\ AnyEnv \in ENVIRONMENTS
BY GovernanceAssumption DEF AnyPack, AnyEnv

LEMMA IdleTypes ==
    /\ Nothing \in Entries
    /\ IdleCommand \in CommandShape /\ IdleCommand.at = "idle"
    /\ IdleCaller \in CallerShape /\ IdleCaller.at = "idle"
    /\ IdleEvaluation \in EvaluationShape
    /\ IdleEvaluation.at = "idle" /\ IdleEvaluation.status = "UNKNOWN"
<1>1. Nothing \in Entries
  BY DEF Nothing, Entries
<1>2. IdleCommand \in CommandShape /\ IdleCommand.at = "idle"
  BY <1>1, AnyFacts DEF IdleCommand, CommandShape, CLASSIFICATIONS
<1>3. IdleCaller \in CallerShape /\ IdleCaller.at = "idle"
  BY AnyFacts DEF IdleCaller, CallerShape, Ops, Classes
<1>4. /\ IdleEvaluation \in EvaluationShape
      /\ IdleEvaluation.at = "idle" /\ IdleEvaluation.status = "UNKNOWN"
  BY AnyFacts DEF IdleEvaluation, EvaluationShape, Statuses
<1> QED
  BY <1>1, <1>2, <1>3, <1>4

\* What the commands make of the entries.
LEMMA EnableFacts ==
    ASSUME NEW entries \in Entries, NEW p \in Pack,
           NEW classification \in CLASSIFICATIONS, NEW envs \in SUBSET Envs
    PROVE  LET new == EnablePack(entries, p, classification, envs) IN
             /\ new \in Entries
             /\ \A q \in Pack \ {p} : new[q] = entries[q]
             /\ \A e : CheckPackAllowed(new[p], e) => e \in envs
<1>1. [recorded |-> TRUE, classification |-> classification, enabled |-> envs] \in Entry
  BY GovernanceAssumption DEF Entry
<1> QED
  BY <1>1 DEF EnablePack, Entries, CheckPackAllowed

LEMMA DisableFacts ==
    ASSUME NEW entries \in Entries, NEW p \in Pack, NEW envs \in SUBSET Envs
    PROVE  LET new == DisablePack(entries, p, envs) IN
             /\ new \in Entries
             /\ \A q \in Pack \ {p} : new[q] = entries[q]
             /\ \A e \in (IF envs = {} THEN Envs ELSE envs) : ~CheckPackAllowed(new[p], e)
             /\ \A e : CheckPackAllowed(new[p], e) => CheckPackAllowed(entries[p], e)
<1>1. [recorded |-> TRUE, classification |-> "blocked", enabled |-> {}] \in Entry
  BY DEF Entry, CLASSIFICATIONS
<1>2. CASE ~entries[p].recorded \/ envs = {}
  <2>1. DisablePack(entries, p, envs) =
            [entries EXCEPT ![p] = [recorded |-> TRUE, classification |-> "blocked", enabled |-> {}]]
    BY <1>2 DEF DisablePack
  <2> QED
    BY <1>1, <2>1 DEF Entries, CheckPackAllowed
<1>3. CASE entries[p].recorded /\ envs # {}
  <2>1. entries[p] \in Entry
    BY <1>3, EntryFacts DEF Entries
  <2>2. [entries[p] EXCEPT !.enabled = @ \ envs] \in Entry
    BY <2>1 DEF Entry
  <2>3. DisablePack(entries, p, envs) = [entries EXCEPT ![p] = [entries[p] EXCEPT !.enabled = @ \ envs]]
    BY <1>3 DEF DisablePack
  <2>4. /\ DisablePack(entries, p, envs)[p].enabled = entries[p].enabled \ envs
        /\ DisablePack(entries, p, envs)[p].recorded = entries[p].recorded
        /\ DisablePack(entries, p, envs)[p].classification = entries[p].classification
    BY <2>1, <2>3 DEF Entries, Entry
  <2> QED
    BY <1>3, <2>2, <2>3, <2>4 DEF Entries, CheckPackAllowed
<1> QED
  BY <1>2, <1>3

\* What a process reads.
LEMMA LoadFacts ==
    ASSUME TypeOK
    PROVE  /\ Load \in Entries
           /\ \A p \in Pack : Load[p] \in Entry \cup {NoEntry}
           /\ BarsHold => \A pe \in barred : ~CheckPackAllowed(Load[pe[1]], pe[2])
<1>1. file.entries \in Entries /\ barred \subseteq Pack \X Envs
  BY DEF TypeOK
<1>2. CASE file.readable
  BY <1>1, <1>2 DEF Load, BarsHold, Entries
<1>3. CASE ~file.readable
  <2>1. Load = Nothing /\ \A pe \in barred : pe[1] \in Pack
    BY <1>1, <1>3 DEF Load
  <2>2. \A p \in Pack : Nothing[p] = NoEntry
    BY DEF Nothing
  <2> QED
    BY <2>1, <2>2, IdleTypes, EntryFacts
<1> QED
  BY <1>2, <1>3

\* The tool of a pack.
LEMMA ToolFacts ==
    /\ \A p \in Pack : /\ RegistryClass(p) \in {"core", "optional"}
                       /\ Tool[p].side_effect \in BOOLEAN
                       /\ Tool[p].side_effect => Tool[p].requires_approval
    /\ Profile.require_tool_governance \in BOOLEAN /\ Profile.allow_unknown_toolpacks \in BOOLEAN
BY PackPolicyAssumption DEF RegistryClass, ToolShape, ProfileShape

\* A call that the file does not allow passes only as an unknown pack in dev, or without
\* governance.
LEMMA NotAllowedNotPassed ==
    ASSUME NEW k, NEW policy, ~CheckPackAllowed(policy, k.asked), Passes(k, policy)
    PROVE  \/ k.asked = "dev" /\ Profile.allow_unknown_toolpacks
           \/ k.op # "stage_pending_action" /\ k.op # "execute" /\ ~Profile.require_tool_governance
BY DEF Passes, AsksProfile, Verdict, UnknownAllowed, ProfileAllows

\* The stages of the lifecycle.
LEMMA StageFacts ==
    ASSUME NEW policy, NEW later, NEW env, NEW p
    PROVE  /\ GovernanceStage(policy, later, env) \in {"PASS", "BLOCKED", "GOVERNANCE_REQUIRED"}
           /\ GovernanceStage(policy, later, env) = "PASS" => CheckPackAllowed(later, env)
           /\ EnablementStage(later, p, env) \in {"PASS", "DISABLED", "GOVERNANCE_REQUIRED"}
BY DEF GovernanceStage, EnablementStage, Unmet

\* A pack that is allowed is runnable.
LEMMA AllowedIsRunnable ==
    ASSUME NEW p \in Pack, NEW policy, NEW env, policy.recorded, CheckPackAllowed(policy, env)
    PROVE  Verdict(policy.recorded, policy, Tool[p], RegistryClass(p), env, FALSE) = "ALLOW"
BY ToolFacts DEF Verdict

(***************************************************************************)
(* The steps, by the process that takes them.                               *)
(***************************************************************************)

CommandStep(c) ==
    Enable(c) \/ Disable(c) \/ LoadPolicies(c) \/ Truncate(c) \/ Write(c) \/ CrashCommand(c)

CallerStep(r) ==
    RunStep(r) \/ ExecuteStaged(r) \/ ProbeHealth(r) \/ ReadPolicy(r) \/ Decide(r) \/ CallEnds(r)

EvaluatorStep(l) ==
    \/ BeginLifecycle(l) \/ CheckHealth(l) \/ ReadGovernance(l) \/ CheckAllowance(l)
    \/ CheckEnablement(l) \/ CheckRegistry(l) \/ LifecycleEnds(l)

LEMMA NextSteps ==
    [Next]_vars =>
        \/ \E c \in Command : CommandStep(c)
        \/ \E r \in Caller : CallerStep(r)
        \/ \E l \in Evaluator : EvaluatorStep(l)
        \/ UNCHANGED vars
BY DEF Next, CommandStep, CallerStep, EvaluatorStep

\* Who touches what.
LEMMA CallerTouches ==
    ASSUME NEW r \in Caller, CallerStep(r)
    PROVE  /\ UNCHANGED <<file, command, evaluation, count, barred>>
           /\ TypeOK => \A q \in Caller \ {r} : caller'[q] = caller[q]
           /\ \A x : x # r => (x \in under' <=> x \in under)
<1>1. UNCHANGED <<file, command, evaluation, count, barred>>
  BY DEF CallerStep, RunStep, ExecuteStaged, ProbeHealth, ReadPolicy, Decide, CallEnds
<1>2. TypeOK => \A q \in Caller \ {r} : caller'[q] = caller[q]
  BY DEF CallerStep, RunStep, ExecuteStaged, ProbeHealth, ReadPolicy, Decide, CallEnds, TypeOK
<1>3. \A x : x # r => (x \in under' <=> x \in under)
  BY DEF CallerStep, RunStep, ExecuteStaged, ProbeHealth, ReadPolicy, Decide, CallEnds, Under
<1> QED
  BY <1>1, <1>2, <1>3

LEMMA EvaluatorTouches ==
    ASSUME NEW l \in Evaluator, EvaluatorStep(l)
    PROVE  /\ UNCHANGED <<file, command, caller, count, barred>>
           /\ TypeOK => \A q \in Evaluator \ {l} : evaluation'[q] = evaluation[q]
           /\ \A x : x # l => (x \in under' <=> x \in under)
<1>1. UNCHANGED <<file, command, caller, count, barred>>
  BY DEF EvaluatorStep, BeginLifecycle, CheckHealth, ReadGovernance, CheckAllowance,
     CheckEnablement, CheckRegistry, LifecycleEnds
<1>2. TypeOK => \A q \in Evaluator \ {l} : evaluation'[q] = evaluation[q]
  BY DEF EvaluatorStep, BeginLifecycle, CheckHealth, ReadGovernance, CheckAllowance,
     CheckEnablement, CheckRegistry, LifecycleEnds, Stage, Forget, TypeOK
<1>3. \A x : x # l => (x \in under' <=> x \in under)
  BY DEF EvaluatorStep, BeginLifecycle, CheckHealth, ReadGovernance, CheckAllowance,
     CheckEnablement, CheckRegistry, LifecycleEnds, Under
<1> QED
  BY <1>1, <1>2, <1>3

(***************************************************************************)
(* Type correctness.                                                        *)
(***************************************************************************)

LEMMA InitTypeOK == Init => TypeOK
<1> SUFFICES ASSUME Init PROVE TypeOK
  OBVIOUS
<1>1. [recorded |-> TRUE, classification |-> "optional", enabled |-> Envs] \in Entry
  BY GovernanceAssumption DEF Entry, CLASSIFICATIONS
<1>2. file \in [readable : BOOLEAN, entries : Entries]
  BY <1>1 DEF Init, Entries
<1> QED
  BY <1>2, IdleTypes DEF Init, TypeOK

\* What a step changes of a command, a call or an evaluation.
LEMMA CommandUpdates ==
    ASSUME NEW k \in CommandShape
    PROVE  /\ \A entries \in Entries, blind \in BOOLEAN :
                [k EXCEPT !.at = "truncate", !.entries = entries, !.blind = blind, !.missed = {}]
                    \in CommandShape
           /\ \A missed \in SUBSET Pack, mixed \in BOOLEAN :
                [k EXCEPT !.missed = missed, !.mixed = mixed] \in CommandShape
BY DEF CommandShape

LEMMA CallerUpdates ==
    ASSUME NEW k \in CallerShape
    PROVE  /\ \A live \in BOOLEAN :
                [k EXCEPT !.at = "policy", !.op = "execute_pending_action", !.live = live]
                    \in CallerShape
           /\ \A recorded \in BOOLEAN :
                [k EXCEPT !.at = "check", !.recorded = recorded] \in CallerShape
BY DEF CallerShape, Ops

Stages == {"idle", "health", "governance", "allowance", "enablement", "registry", "done"}

LEMMA StillUnderType == \A bans : StillUnder(bans) \subseteq under
BY DEF StillUnder

LEMMA CommandTypeOK ==
    ASSUME TypeOK, NEW c \in Command, CommandStep(c)
    PROVE  TypeOK'
<1>1. CASE Enable(c)
  <2>1. PICK p \in Pack, e \in Enables :
            /\ command' = [command EXCEPT ![c] = [ IdleCommand EXCEPT
                  !.at = "load", !.enables = TRUE, !.pack = p,
                  !.classification = e[1], !.envs = e[2] ]]
            /\ count' = [count EXCEPT !.commands = @ + 1]
            /\ UNCHANGED <<file, caller, evaluation, barred, under>>
    BY <1>1 DEF Enable
  <2>2. e[1] \in CLASSIFICATIONS /\ e[2] \in SUBSET Envs
    BY GovernanceAssumption
  <2>3. command' \in [Command -> CommandShape]
    BY <2>1, <2>2, IdleTypes DEF TypeOK, CommandShape
  <2>4. count' \in [commands : Nat, crashes : Nat]
    BY <2>1 DEF TypeOK
  <2> QED
    BY <2>1, <2>3, <2>4 DEF TypeOK
<1>2. CASE Disable(c)
  <2>1. PICK p \in Pack, es \in Disables :
            /\ command' = [command EXCEPT ![c] = [ IdleCommand EXCEPT
                  !.at = "load", !.pack = p, !.envs = es ]]
            /\ count' = [count EXCEPT !.commands = @ + 1]
            /\ UNCHANGED <<file, caller, evaluation, barred, under>>
    BY <1>2 DEF Disable
  <2>2. es \in SUBSET Envs
    BY GovernanceAssumption
  <2>3. command' \in [Command -> CommandShape]
    BY <2>1, <2>2, IdleTypes DEF TypeOK, CommandShape
  <2>4. count' \in [commands : Nat, crashes : Nat]
    BY <2>1 DEF TypeOK
  <2> QED
    BY <2>1, <2>3, <2>4 DEF TypeOK
<1>3. CASE LoadPolicies(c)
  <2> DEFINE k == command[c]
             entries == IF k.enables THEN EnablePack(Load, k.pack, k.classification, k.envs)
                                     ELSE DisablePack(Load, k.pack, k.envs)
  <2>1. k.pack \in Pack /\ k.classification \in CLASSIFICATIONS /\ k.envs \in SUBSET Envs
    BY DEF TypeOK, CommandShape
  <2>2. entries \in Entries
    BY <2>1, LoadFacts, EnableFacts, DisableFacts
  <2>3. command' = [command EXCEPT ![c].at = "truncate", ![c].entries = entries,
                                   ![c].blind = ~file.readable, ![c].missed = {}]
    BY <1>3 DEF LoadPolicies
  <2> HIDE DEF entries
  <2>4. command' \in [Command -> CommandShape]
    <3>1. command' = [command EXCEPT ![c] = [command[c] EXCEPT
                          !.at = "truncate", !.entries = entries, !.blind = ~file.readable,
                          !.missed = {}]]
      BY <2>3
    <3>2. (~file.readable) \in BOOLEAN /\ command \in [Command -> CommandShape]
      BY DEF TypeOK
    <3> QED
      BY <2>2, <3>1, <3>2, CommandUpdates
  <2> QED
    BY <1>3, <2>4 DEF LoadPolicies, TypeOK
<1>4. CASE Truncate(c)
  <2>1. command' \in [Command -> CommandShape]
    BY <1>4 DEF Truncate, TypeOK, CommandShape
  <2>2. file' \in [readable : BOOLEAN, entries : Entries]
    BY <1>4 DEF Truncate, TypeOK
  <2>3. evaluation' \in [Evaluator -> EvaluationShape]
    BY <1>4 DEF Truncate, Disturbed, TypeOK, EvaluationShape
  <2> QED
    BY <1>4, <2>1, <2>2, <2>3 DEF Truncate, TypeOK
<1>5. CASE Write(c)
  <2> DEFINE k == command[c]
             changed == {k.pack} \cup { p \in Pack : k.entries[p] # file.entries[p] }
             disabled == IF k.enables THEN {}
                         ELSE {k.pack} \X (IF k.envs = {} THEN Envs ELSE k.envs)
             enabled == IF k.enables THEN {k.pack} \X k.envs ELSE {}
             overlapped == { pe \in barred : pe[1] \in k.missed }
             kept == barred \ (enabled \cup overlapped)
  <2>1. k.pack \in Pack /\ k.envs \in SUBSET Envs /\ k.entries \in Entries
    BY DEF TypeOK, CommandShape
  <2>2. changed \in SUBSET Pack /\ disabled \in SUBSET (Pack \X Envs)
    BY <2>1
  <2>3. /\ \E readable \in BOOLEAN : file' = [readable |-> readable, entries |-> k.entries]
        /\ command' = [ d \in Command |->
               IF d = c THEN IdleCommand
               ELSE IF command[d].at = "idle" THEN command[d]
               ELSE [command[d] EXCEPT !.missed = @ \cup changed,
                                       !.mixed = @ \/ command[d].at = "write"] ]
        /\ barred' = kept \cup disabled
        /\ under' = StillUnder(kept)
    BY <1>5 DEF Write
  <2>b. kept \subseteq barred
    OBVIOUS
  <2> HIDE DEF changed, disabled, kept
  <2>4. command' \in [Command -> CommandShape]
    <3>1. ASSUME NEW d \in Command
          PROVE  [command[d] EXCEPT !.missed = @ \cup changed,
                                    !.mixed = @ \/ command[d].at = "write"] \in CommandShape
      <4>1. (command[d].mixed \/ command[d].at = "write") \in BOOLEAN
        BY DEF TypeOK, CommandShape
      <4>2. command[d].missed \cup changed \in SUBSET Pack
        BY <2>2 DEF TypeOK, CommandShape
      <4>3. command[d] \in CommandShape
        BY DEF TypeOK
      <4> QED
        BY <4>1, <4>2, <4>3, CommandUpdates
    <3> QED
      BY <2>3, <3>1, IdleTypes DEF TypeOK
  <2>5. file' \in [readable : BOOLEAN, entries : Entries]
    <3>1. PICK readable \in BOOLEAN : file' = [readable |-> readable, entries |-> k.entries]
      BY <2>3
    <3> HIDE DEF k
    <3> QED
      BY <2>1, <3>1
  <2>6. evaluation' \in [Evaluator -> EvaluationShape]
    BY <1>5 DEF Write, Disturbed, TypeOK, EvaluationShape
  <2>7. barred' \subseteq Pack \X Envs /\ under' \subseteq Caller \cup Evaluator
    BY <2>2, <2>3, <2>b, StillUnderType DEF TypeOK
  <2> QED
    BY <1>5, <2>4, <2>5, <2>6, <2>7 DEF Write, TypeOK
<1>6. CASE CrashCommand(c)
  <2>1. count' \in [commands : Nat, crashes : Nat]
    BY <1>6 DEF CrashCommand, TypeOK
  <2> QED
    BY <1>6, <2>1, IdleTypes DEF CrashCommand, TypeOK
<1> QED
  BY <1>1, <1>2, <1>3, <1>4, <1>5, <1>6 DEF CommandStep

LEMMA GovernanceEnvironmentType ==
    ASSUME NEW p, NEW e \in Envs, NEW live
    PROVE  GovernanceEnvironments(p, e, live) \subseteq ENVIRONMENTS
BY GovernanceAssumption DEF GovernanceEnvironments, ENVIRONMENTS

LEMMA CallerTypeOK ==
    ASSUME TypeOK, NEW r \in Caller, CallerStep(r)
    PROVE  TypeOK'
<1>1. under' \subseteq Caller \cup Evaluator
  BY CallerTouches DEF TypeOK
<1>2. caller' \in [Caller -> CallerShape]
  <2>1. CASE RunStep(r)
    <3>1. PICK p \in Pack, e \in Envs, live \in BOOLEAN :
            \E asked \in GovernanceEnvironments(p, e, live /\ ~Tool[p].side_effect) :
                /\ caller' = [caller EXCEPT ![r] = [ IdleCaller EXCEPT
                       !.at = "policy", !.pack = p, !.env = e, !.asked = asked,
                       !.op = IF Tool[p].side_effect THEN "stage_pending_action" ELSE "execute",
                       !.live = live /\ ~Tool[p].side_effect, !.class = RegistryClass(p) ]]
                /\ under' = Under(r, p, asked)
      BY <2>1 DEF RunStep
    <3>2. PICK asked \in ENVIRONMENTS :
            caller' = [caller EXCEPT ![r] = [ IdleCaller EXCEPT
               !.at = "policy", !.pack = p, !.env = e, !.asked = asked,
               !.op = IF Tool[p].side_effect THEN "stage_pending_action" ELSE "execute",
               !.live = live /\ ~Tool[p].side_effect, !.class = RegistryClass(p) ]]
      BY <3>1, GovernanceEnvironmentType
    <3>3. RegistryClass(p) \in Classes /\ (live /\ ~Tool[p].side_effect) \in BOOLEAN
      BY ToolFacts DEF Classes, CLASSIFICATIONS
    <3>4. (IF Tool[p].side_effect THEN "stage_pending_action" ELSE "execute") \in Ops
      BY DEF Ops
    <3> QED
      BY <3>2, <3>3, <3>4, IdleTypes DEF TypeOK, CallerShape
  <2>2. CASE ExecuteStaged(r)
    <3>1. PICK live \in BOOLEAN :
              caller' = [caller EXCEPT ![r] = [caller[r] EXCEPT
                  !.at = "policy", !.op = "execute_pending_action", !.live = live]]
      BY <2>2 DEF ExecuteStaged
    <3> QED
      BY <3>1, CallerUpdates DEF TypeOK
  <2>3. CASE ProbeHealth(r)
    <3>1. PICK p \in Pack, e \in Envs :
            caller' = [caller EXCEPT ![r] = [ IdleCaller EXCEPT
                !.at = "policy", !.op = "health", !.pack = p, !.env = e, !.asked = e,
                !.live = TRUE, !.class = Load[p].classification ]]
      BY <2>3 DEF ProbeHealth
    <3>2. Load[p].classification \in Classes /\ e \in ENVIRONMENTS
      BY LoadFacts, EntryFacts, GovernanceAssumption
    <3> QED
      BY <3>1, <3>2, IdleTypes DEF TypeOK, CallerShape, Ops
  <2>4. CASE ReadPolicy(r)
    <3>1. Load[caller[r].pack].recorded \in BOOLEAN
      BY LoadFacts, EntryFacts DEF TypeOK, CallerShape
    <3>2. caller' = [caller EXCEPT ![r] = [caller[r] EXCEPT
              !.at = "check", !.recorded = Load[caller[r].pack].recorded]]
      BY <2>4 DEF ReadPolicy
    <3> QED
      BY <3>1, <3>2, CallerUpdates DEF TypeOK
  <2>5. CASE Decide(r)
    <3>1. Load[caller[r].pack].classification \in Classes
      BY LoadFacts, EntryFacts DEF TypeOK, CallerShape
    <3>2. \/ caller' = [caller EXCEPT ![r] = IdleCaller]
          \/ \E at \in {"staged", "calling"} :
                caller' = [caller EXCEPT ![r] = [caller[r] EXCEPT
                    !.at = at, !.recorded = FALSE, !.seen = Load[caller[r].pack].classification]]
          \/ caller' = [caller EXCEPT ![r] = [caller[r] EXCEPT
                    !.at = "policy", !.op = "execute_live", !.recorded = FALSE]]
      BY <2>5 DEF Decide
    <3>3. ASSUME NEW k, k \in CallerShape PROVE [caller EXCEPT ![r] = k] \in [Caller -> CallerShape]
      BY <3>3 DEF TypeOK
    <3>4. caller[r] \in CallerShape
      BY DEF TypeOK
    <3>5. CASE caller' = [caller EXCEPT ![r] = IdleCaller]
      BY <3>3, <3>5, IdleTypes
    <3>6. ASSUME NEW at \in {"staged", "calling"},
                 caller' = [caller EXCEPT ![r] = [caller[r] EXCEPT
                    !.at = at, !.recorded = FALSE, !.seen = Load[caller[r].pack].classification]]
          PROVE  caller' \in [Caller -> CallerShape]
      <4>1. [caller[r] EXCEPT !.at = at, !.recorded = FALSE,
                              !.seen = Load[caller[r].pack].classification] \in CallerShape
        BY <3>1, <3>4 DEF CallerShape
      <4> QED
        BY <3>3, <3>6, <4>1
    <3>7. CASE caller' = [caller EXCEPT ![r] = [caller[r] EXCEPT
                    !.at = "policy", !.op = "execute_live", !.recorded = FALSE]]
      <4>1. [caller[r] EXCEPT !.at = "policy", !.op = "execute_live", !.recorded = FALSE]
                \in CallerShape
        BY <3>4 DEF CallerShape, Ops
      <4> QED
        BY <3>3, <3>7, <4>1
    <3> QED
      BY <3>2, <3>5, <3>6, <3>7
  <2>6. CASE CallEnds(r)
    BY <2>6, IdleTypes DEF CallEnds, TypeOK
  <2> QED
    BY <2>1, <2>2, <2>3, <2>4, <2>5, <2>6 DEF CallerStep
<1> QED
  BY <1>1, <1>2, CallerTouches DEF TypeOK

LEMMA EvaluatorTypeOK ==
    ASSUME TypeOK, NEW l \in Evaluator, EvaluatorStep(l)
    PROVE  TypeOK'
<1>1. under' \subseteq Caller \cup Evaluator
  BY EvaluatorTouches DEF TypeOK
<1>2. evaluation' \in [Evaluator -> EvaluationShape]
  <2>0. /\ evaluation \in [Evaluator -> EvaluationShape] /\ evaluation[l] \in EvaluationShape
        /\ {"health", "governance", "allowance", "enablement", "registry", "done"} \subseteq Stages
    BY DEF TypeOK, Stages
  <2>a. ASSUME NEW v, v \in EvaluationShape
        PROVE  [evaluation EXCEPT ![l] = v] \in [Evaluator -> EvaluationShape]
    BY <2>0, <2>a
  <2>1. ASSUME NEW at \in Stages, NEW status \in Statuses
        PROVE  /\ Stage(l, at, status) \in [Evaluator -> EvaluationShape]
               /\ Forget(l, at, status) \in [Evaluator -> EvaluationShape]
    <3>1. /\ Stage(l, at, status) =
                [evaluation EXCEPT ![l] = [evaluation[l] EXCEPT !.at = at, !.status = status]]
          /\ Forget(l, at, status) = [evaluation EXCEPT ![l] = [evaluation[l] EXCEPT
                !.at = at, !.status = status, !.policy = NoEntry]]
      BY <2>0 DEF Stage, Forget
    <3>2. [evaluation[l] EXCEPT !.at = at, !.status = status] \in EvaluationShape
      BY <2>0 DEF EvaluationShape, Stages
    <3>3. [evaluation[l] EXCEPT !.at = at, !.status = status, !.policy = NoEntry] \in EvaluationShape
      BY <2>0 DEF EvaluationShape, Stages
    <3> QED
      BY <2>a, <3>1, <3>2, <3>3
  <2>2. evaluation[l].pack \in Pack /\ evaluation[l].status \in Statuses
    BY DEF TypeOK, EvaluationShape
  <2>3. CASE BeginLifecycle(l)
    <3>1. PICK p \in Pack, e \in Envs, at \in Stages, status \in Statuses, b \in BOOLEAN :
              evaluation' = [evaluation EXCEPT ![l] = [ IdleEvaluation EXCEPT
                  !.at = at, !.pack = p, !.env = e, !.status = status, !.untested = b ]]
      <4>1. PICK p \in Pack, e \in Envs, tests \in {"UNKNOWN", "INVALID", "UNTESTED", "PASS"} :
              LET ends == tests \in {"UNKNOWN", "INVALID"}
              IN  /\ evaluation[l].at = "idle"
                  /\ evaluation' = [evaluation EXCEPT ![l] = [ IdleEvaluation EXCEPT
                         !.at = IF ends THEN "done" ELSE "health", !.pack = p, !.env = e,
                         !.status = IF ends THEN tests ELSE "UNKNOWN",
                         !.untested = tests = "UNTESTED" ]]
                  /\ under' = Under(l, p, e)
                  /\ UNCHANGED <<file, command, caller, count, barred>>
        BY <2>3 DEF BeginLifecycle
      <4>4. {"done", "health"} \subseteq Stages /\ {"UNKNOWN", "INVALID"} \subseteq Statuses
        BY DEF Stages, Statuses
      <4>2. CASE tests \in {"UNKNOWN", "INVALID"}
        <5>1. evaluation' = [evaluation EXCEPT ![l] = [ IdleEvaluation EXCEPT
                  !.at = "done", !.pack = p, !.env = e, !.status = tests, !.untested = FALSE ]]
          BY <4>1, <4>2
        <5> QED
          BY <4>2, <4>4, <5>1, FALSE \in BOOLEAN
      <4>3. CASE tests \in {"UNTESTED", "PASS"}
        <5>1. evaluation' = [evaluation EXCEPT ![l] = [ IdleEvaluation EXCEPT
                  !.at = "health", !.pack = p, !.env = e, !.status = "UNKNOWN",
                  !.untested = (tests = "UNTESTED") ]]
          BY <4>1, <4>3
        <5>2. (tests = "UNTESTED") \in BOOLEAN
          OBVIOUS
        <5> QED
          BY <4>4, <5>1, <5>2
      <4> QED
        BY <4>2, <4>3
    <3>2. [ IdleEvaluation EXCEPT !.at = at, !.pack = p, !.env = e, !.status = status,
                                  !.untested = b ] \in EvaluationShape
      BY IdleTypes DEF EvaluationShape, Stages
    <3> QED
      BY <2>a, <3>1, <3>2
  <2>4. CASE CheckHealth(l)
    <3>1. {"UNKNOWN", "DISABLED", "INVALID"} \subseteq Statuses
      BY DEF Statuses
    <3>2. ASSUME NEW b \in BOOLEAN
          PROVE  /\ [Stage(l, "governance", "UNKNOWN") EXCEPT ![l].untested = TRUE]
                        \in [Evaluator -> EvaluationShape]
                 /\ [Stage(l, "governance", "UNKNOWN") EXCEPT ![l].warned = b]
                        \in [Evaluator -> EvaluationShape]
      <4>1. /\ [Stage(l, "governance", "UNKNOWN") EXCEPT ![l].untested = TRUE] =
                   [evaluation EXCEPT ![l] = [evaluation[l] EXCEPT
                       !.at = "governance", !.status = "UNKNOWN", !.untested = TRUE]]
            /\ [Stage(l, "governance", "UNKNOWN") EXCEPT ![l].warned = b] =
                   [evaluation EXCEPT ![l] = [evaluation[l] EXCEPT
                       !.at = "governance", !.status = "UNKNOWN", !.warned = b]]
        BY <2>0 DEF Stage
      <4>2. [evaluation[l] EXCEPT !.at = "governance", !.status = "UNKNOWN", !.untested = TRUE]
                \in EvaluationShape
        BY <2>0, <3>1 DEF EvaluationShape
      <4>3. [evaluation[l] EXCEPT !.at = "governance", !.status = "UNKNOWN", !.warned = b]
                \in EvaluationShape
        BY <2>0, <3>1 DEF EvaluationShape
      <4> QED
        BY <2>a, <4>1, <4>2, <4>3
    <3>3. PICK health \in {"skipped", "passes", "warns", "fails"} :
            \/ evaluation' = [Stage(l, "governance", "UNKNOWN") EXCEPT ![l].untested = TRUE]
            \/ evaluation' = Stage(l, "done", "DISABLED")
            \/ evaluation' = Stage(l, "done", "INVALID")
            \/ evaluation' = [Stage(l, "governance", "UNKNOWN") EXCEPT ![l].warned = health = "warns"]
      BY <2>4 DEF CheckHealth
    <3>4. "done" \in Stages
      BY DEF Stages
    <3>5. CASE evaluation' = [Stage(l, "governance", "UNKNOWN") EXCEPT ![l].warned = health = "warns"]
      <4> DEFINE b == (health = "warns")
      <4>1. b \in BOOLEAN
        OBVIOUS
      <4>2. evaluation' = [Stage(l, "governance", "UNKNOWN") EXCEPT ![l].warned = b]
        BY <3>5
      <4> HIDE DEF b
      <4> QED
        BY <3>2, <4>1, <4>2
    <3>6. CASE evaluation' = [Stage(l, "governance", "UNKNOWN") EXCEPT ![l].untested = TRUE]
      BY <3>2, <3>6
    <3>7. CASE evaluation' = Stage(l, "done", "DISABLED")
      BY <2>1, <3>1, <3>4, <3>7
    <3>8. CASE evaluation' = Stage(l, "done", "INVALID")
      BY <2>1, <3>1, <3>4, <3>8
    <3> QED
      BY <3>3, <3>5, <3>6, <3>7, <3>8, Zenon
  <2>5. CASE ReadGovernance(l)
    <3>1. Load[evaluation[l].pack] \in Entry \cup {NoEntry}
      BY <2>2, LoadFacts
    <3>2. evaluation' = [evaluation EXCEPT ![l] = [evaluation[l] EXCEPT
              !.at = "allowance", !.policy = Load[evaluation[l].pack]]]
      BY <2>5 DEF ReadGovernance
    <3>3. [evaluation[l] EXCEPT !.at = "allowance", !.policy = Load[evaluation[l].pack]]
              \in EvaluationShape
      BY <2>0, <3>1 DEF EvaluationShape
    <3> QED
      BY <2>a, <3>2, <3>3
  <2>6. CASE CheckAllowance(l)
    <3> DEFINE stage == GovernanceStage(evaluation[l].policy, Load[evaluation[l].pack],
                                        evaluation[l].env)
    <3>1. stage \in {"PASS", "BLOCKED", "GOVERNANCE_REQUIRED"}
      BY StageFacts
    <3>2. evaluation' = CASE stage = "PASS"    -> Forget(l, "enablement", evaluation[l].status)
                          [] stage = "BLOCKED" -> Forget(l, "done", "BLOCKED")
                          [] OTHER             -> Forget(l, "enablement", stage)
      BY <2>6 DEF CheckAllowance
    <3> HIDE DEF stage
    <3> QED
      BY <2>0, <2>1, <2>2, <3>1, <3>2 DEF Statuses
  <2>7. CASE CheckEnablement(l)
    <3> DEFINE stage == EnablementStage(Load[evaluation[l].pack], evaluation[l].pack,
                                        evaluation[l].env)
    <3>1. stage \in {"PASS", "DISABLED", "GOVERNANCE_REQUIRED"}
      BY StageFacts
    <3>2. evaluation' = CASE stage = "PASS"     -> Stage(l, "registry", evaluation[l].status)
                          [] stage = "DISABLED" -> Stage(l, "done", "DISABLED")
                          [] OTHER              -> Stage(l, "registry", stage)
      BY <2>7 DEF CheckEnablement
    <3> HIDE DEF stage
    <3> QED
      BY <2>0, <2>1, <2>2, <3>1, <3>2 DEF Statuses
  <2>8. CASE CheckRegistry(l)
    <3>1. PICK status \in {"INVALID", "GOVERNANCE_REQUIRED", "UNTESTED", "READY_WITH_WARNINGS",
                           "READY"} : evaluation' = Stage(l, "done", status)
      BY <2>8 DEF CheckRegistry
    <3> QED
      BY <2>0, <2>1, <3>1 DEF Statuses
  <2>9. CASE LifecycleEnds(l)
    BY <2>9, IdleTypes DEF LifecycleEnds, TypeOK
  <2> QED
    BY <2>3, <2>4, <2>5, <2>6, <2>7, <2>8, <2>9 DEF EvaluatorStep
<1> QED
  BY <1>1, <1>2, EvaluatorTouches DEF TypeOK

LEMMA NextTypeOK == TypeOK /\ [Next]_vars => TypeOK'
<1> SUFFICES ASSUME TypeOK, UNCHANGED vars PROVE TypeOK'
  BY NextSteps, CommandTypeOK, CallerTypeOK, EvaluatorTypeOK
<1> QED
  BY DEF TypeOK, vars

(***************************************************************************)
(* The steps of the callers keep the invariant.                             *)
(***************************************************************************)

\* The profile has been asked about the call.
Asked(k) == k.at = "staged" \/ k.op \in {"execute_live", "execute_pending_action"}

\* The part of UnderHolds and of DisabledIsRefused about one call.
CallHolds ==
    \A r \in Caller :
        /\ r \in under => <<caller[r].pack, caller[r].asked>> \in barred
        /\ Asked(caller[r]) => Profile.require_tool_governance
        /\ r \in under /\ caller[r].at = "calling" =>
               \/ caller[r].asked = "dev" /\ Profile.allow_unknown_toolpacks
               \/ caller[r].op = "health" /\ ~Profile.require_tool_governance

\* The part of them about one evaluation.
EvaluationHolds ==
    \A l \in Evaluator \cap under :
        /\ <<evaluation[l].pack, evaluation[l].env>> \in barred
        /\ evaluation[l].at \in {"enablement", "registry"} =>
              evaluation[l].status = "GOVERNANCE_REQUIRED"
        /\ evaluation[l].status \notin {"READY", "READY_WITH_WARNINGS"}

LEMMA Parts ==
    IndInv <=>
        /\ TypeOK /\ BarsHold /\ CopiesHold /\ AloneHolds
        /\ CallHolds /\ EvaluationHolds
BY DEF IndInv, DisabledIsRefused, UnderHolds, CallHolds, EvaluationHolds, Asked

LEMMA PartsPrimed ==
    IndInv' <=>
        /\ TypeOK' /\ BarsHold' /\ CopiesHold' /\ AloneHolds'
        /\ CallHolds' /\ EvaluationHolds'
BY DEF IndInv, DisabledIsRefused, UnderHolds, CallHolds, EvaluationHolds, Asked

LEMMA UnderFacts ==
    \A x, p, e : x \in Under(x, p, e) => <<p, e>> \in barred
BY DEF Under

LEMMA OneCallStep ==
    ASSUME TypeOK, BarsHold, CallHolds, NEW r \in Caller, CallerStep(r)
    PROVE  /\ r \in under' => <<caller'[r].pack, caller'[r].asked>> \in barred
           /\ Asked(caller'[r]) => Profile.require_tool_governance
           /\ r \in under' /\ caller'[r].at = "calling" =>
                  \/ caller'[r].asked = "dev" /\ Profile.allow_unknown_toolpacks
                  \/ caller'[r].op = "health" /\ ~Profile.require_tool_governance
<1>0. caller \in [Caller -> CallerShape] /\ caller[r] \in CallerShape
  BY DEF TypeOK
<1>1. CASE RunStep(r)
  <2>1. PICK p \in Pack, e \in Envs, live \in BOOLEAN :
          \E asked \in GovernanceEnvironments(p, e, live /\ ~Tool[p].side_effect) :
              /\ caller' = [caller EXCEPT ![r] = [ IdleCaller EXCEPT
                     !.at = "policy", !.pack = p, !.env = e, !.asked = asked,
                     !.op = IF Tool[p].side_effect THEN "stage_pending_action" ELSE "execute",
                     !.live = live /\ ~Tool[p].side_effect, !.class = RegistryClass(p) ]]
              /\ under' = Under(r, p, asked)
    BY <1>1 DEF RunStep
  <2>a. PICK asked :
              /\ caller' = [caller EXCEPT ![r] = [ IdleCaller EXCEPT
                     !.at = "policy", !.pack = p, !.env = e, !.asked = asked,
                     !.op = IF Tool[p].side_effect THEN "stage_pending_action" ELSE "execute",
                     !.live = live /\ ~Tool[p].side_effect, !.class = RegistryClass(p) ]]
              /\ under' = Under(r, p, asked)
    BY <2>1
  <2>2. /\ caller'[r].at = "policy" /\ caller'[r].pack = p /\ caller'[r].asked = asked
        /\ caller'[r].op \in {"stage_pending_action", "execute"} /\ under' = Under(r, p, asked)
    BY <1>0, <2>a DEF IdleCaller
  <2> QED
    BY <2>2, UnderFacts DEF Asked
<1>2. CASE ExecuteStaged(r)
  <2>1. PICK live \in BOOLEAN :
            /\ caller' = [caller EXCEPT ![r] = [caller[r] EXCEPT
                  !.at = "policy", !.op = "execute_pending_action", !.live = live]]
            /\ under' = Under(r, caller[r].pack, caller[r].asked)
            /\ caller[r].at = "staged"
    BY <1>2 DEF ExecuteStaged
  <2>2. /\ caller'[r].at = "policy" /\ caller'[r].pack = caller[r].pack
        /\ caller'[r].asked = caller[r].asked
    BY <1>0, <2>1 DEF CallerShape
  <2> QED
    BY <2>1, <2>2, UnderFacts DEF CallHolds, Asked
<1>3. CASE ProbeHealth(r)
  <2>1. PICK p \in Pack, e \in Envs :
            /\ caller' = [caller EXCEPT ![r] = [ IdleCaller EXCEPT
                   !.at = "policy", !.op = "health", !.pack = p, !.env = e, !.asked = e,
                   !.live = TRUE, !.class = Load[p].classification ]]
            /\ under' = Under(r, p, e)
    BY <1>3 DEF ProbeHealth
  <2>2. /\ caller'[r].at = "policy" /\ caller'[r].pack = p /\ caller'[r].asked = e
        /\ caller'[r].op = "health"
    BY <1>0, <2>1 DEF IdleCaller
  <2> QED
    BY <2>1, <2>2, UnderFacts DEF Asked
<1>4. CASE ReadPolicy(r)
  <2>1. /\ caller'[r].at = "check" /\ caller'[r].pack = caller[r].pack /\ under' = under
        /\ caller'[r].asked = caller[r].asked /\ caller'[r].op = caller[r].op
    BY <1>0, <1>4 DEF ReadPolicy, CallerShape
  <2> QED
    BY <2>1 DEF CallHolds, Asked
<1>5. CASE Decide(r)
  <2> DEFINE policy == Load[caller[r].pack]
  <2>1. CASE /\ caller' = [caller EXCEPT ![r] = IdleCaller]
             /\ under' = under \ {r}
    BY <1>0, <2>1 DEF IdleCaller, Asked
  <2>2. CASE /\ Passes(caller[r], policy) /\ caller[r].op = "stage_pending_action"
             /\ caller' = [caller EXCEPT ![r].at = "staged", ![r].recorded = FALSE,
                                         ![r].seen = policy.classification]
             /\ under' = under \ {r}
    <3>1. caller'[r].at = "staged" /\ caller'[r].op = caller[r].op
      BY <1>0, <2>2 DEF CallerShape
    <3>2. Profile.require_tool_governance
      BY <2>2 DEF Passes, AsksProfile, ProfileAllows
    <3> QED
      BY <2>2, <3>1, <3>2
  <2>3. CASE /\ Passes(caller[r], policy) /\ caller[r].op = "execute"
             /\ caller' = [caller EXCEPT ![r].at = "policy", ![r].op = "execute_live",
                                         ![r].recorded = FALSE]
             /\ under' = Under(r, caller[r].pack, caller[r].asked)
    <3>1. /\ caller'[r].at = "policy" /\ caller'[r].pack = caller[r].pack
          /\ caller'[r].asked = caller[r].asked
      BY <1>0, <2>3 DEF CallerShape
    <3>2. Profile.require_tool_governance
      BY <2>3 DEF Passes, AsksProfile, ProfileAllows
    <3> QED
      BY <2>3, <3>1, <3>2, UnderFacts
  <2>4. CASE /\ Passes(caller[r], policy)
             /\ caller' = [caller EXCEPT ![r].at = "calling", ![r].recorded = FALSE,
                                         ![r].seen = policy.classification]
             /\ under' = under
             /\ caller[r].op # "stage_pending_action"
    <3>1. /\ caller'[r].at = "calling" /\ caller'[r].op = caller[r].op
          /\ caller'[r].pack = caller[r].pack /\ caller'[r].asked = caller[r].asked
      BY <1>0, <2>4 DEF CallerShape
    <3>2. r \in under => ~CheckPackAllowed(policy, caller[r].asked)
      <4> SUFFICES ASSUME r \in under PROVE ~CheckPackAllowed(policy, caller[r].asked)
        OBVIOUS
      <4>1. <<caller[r].pack, caller[r].asked>> \in barred
        BY DEF CallHolds
      <4> QED
        BY <4>1, LoadFacts
    <3>3. r \in under =>
              \/ caller[r].asked = "dev" /\ Profile.allow_unknown_toolpacks
              \/ caller[r].op = "health" /\ ~Profile.require_tool_governance
      <4>1. caller[r].op \in Ops
        BY <1>0 DEF CallerShape
      <4> QED
        BY <2>4, <3>2, <4>1, NotAllowedNotPassed DEF CallHolds, Asked, Ops
    <3> QED
      BY <2>4, <3>1, <3>3 DEF CallHolds, Asked
  <2> QED
    BY <1>5, <2>1, <2>2, <2>3, <2>4 DEF Decide
<1>6. CASE CallEnds(r)
  BY <1>0, <1>6 DEF CallEnds, IdleCaller, Asked
<1> QED
  BY <1>1, <1>2, <1>3, <1>4, <1>5, <1>6 DEF CallerStep

LEMMA CallerKeeps ==
    ASSUME IndInv, NEW r \in Caller, CallerStep(r)
    PROVE  IndInv'
<1>1. /\ TypeOK /\ BarsHold /\ CopiesHold /\ AloneHolds /\ CallHolds /\ EvaluationHolds
      /\ UNCHANGED <<file, command, evaluation, count, barred>>
      /\ \A q \in Caller \ {r} : caller'[q] = caller[q]
      /\ \A x : x # r => (x \in under' <=> x \in under)
  BY Parts, CallerTouches
<1>2. TypeOK'
  BY <1>1, CallerTypeOK
<1>3. BarsHold'
  BY <1>1 DEF BarsHold
<1>4. CopiesHold'
  BY <1>1 DEF CopiesHold
<1>5. AloneHolds'
  BY <1>1 DEF AloneHolds, Load
<1>6. CallHolds'
  BY <1>1, OneCallStep DEF CallHolds
<1>7. EvaluationHolds'
  BY <1>1, GovernanceAssumption DEF EvaluationHolds
<1> QED
  BY <1>2, <1>3, <1>4, <1>5, <1>6, <1>7, PartsPrimed

(***************************************************************************)
(* The steps of the lifecycle evaluations keep the invariant.               *)
(***************************************************************************)

LEMMA OneEvaluationStep ==
    ASSUME TypeOK, BarsHold, EvaluationHolds, AloneHolds, NEW l \in Evaluator, EvaluatorStep(l)
    PROVE  /\ l \in under' =>
                 /\ <<evaluation'[l].pack, evaluation'[l].env>> \in barred
                 /\ evaluation'[l].at \in {"enablement", "registry"} =>
                        evaluation'[l].status = "GOVERNANCE_REQUIRED"
                 /\ evaluation'[l].status \notin {"READY", "READY_WITH_WARNINGS"}
           /\ /\ evaluation'[l].alone
              /\ \/ /\ evaluation'[l].at \in {"enablement", "registry"}
                    /\ evaluation'[l].status # "GOVERNANCE_REQUIRED"
                 \/ evaluation'[l].status \in {"READY", "READY_WITH_WARNINGS"}
              => CheckPackAllowed(Load[evaluation'[l].pack], evaluation'[l].env)
<1> DEFINE v == evaluation[l]
           w == evaluation'[l]
<1>0. evaluation \in [Evaluator -> EvaluationShape] /\ v \in EvaluationShape
  BY DEF TypeOK
<1>a. l \in under =>
          /\ <<v.pack, v.env>> \in barred
          /\ ~CheckPackAllowed(Load[v.pack], v.env)
          /\ v.at \in {"enablement", "registry"} => v.status = "GOVERNANCE_REQUIRED"
          /\ v.status \notin {"READY", "READY_WITH_WARNINGS"}
  BY LoadFacts DEF EvaluationHolds
<1>b. /\ v.alone
      /\ \/ v.at \in {"enablement", "registry"} /\ v.status # "GOVERNANCE_REQUIRED"
         \/ v.status \in {"READY", "READY_WITH_WARNINGS"}
      => CheckPackAllowed(Load[v.pack], v.env)
  BY DEF AloneHolds
<1>c. \A at, status :
          /\ Stage(l, at, status)[l].at = at /\ Stage(l, at, status)[l].status = status
          /\ Stage(l, at, status)[l].pack = v.pack /\ Stage(l, at, status)[l].env = v.env
          /\ Stage(l, at, status)[l].alone = v.alone
          /\ Forget(l, at, status)[l].at = at /\ Forget(l, at, status)[l].status = status
          /\ Forget(l, at, status)[l].pack = v.pack /\ Forget(l, at, status)[l].env = v.env
          /\ Forget(l, at, status)[l].alone = v.alone
  BY <1>0 DEF Stage, Forget, EvaluationShape
<1>1. CASE BeginLifecycle(l)
  <2>1. PICK p \in Pack, e \in Envs, tests \in {"UNKNOWN", "INVALID", "UNTESTED", "PASS"} :
          LET ends == tests \in {"UNKNOWN", "INVALID"}
          IN  /\ evaluation[l].at = "idle"
              /\ evaluation' = [evaluation EXCEPT ![l] = [ IdleEvaluation EXCEPT
                     !.at = IF ends THEN "done" ELSE "health", !.pack = p, !.env = e,
                     !.status = IF ends THEN tests ELSE "UNKNOWN",
                     !.untested = tests = "UNTESTED" ]]
              /\ under' = Under(l, p, e)
              /\ UNCHANGED <<file, command, caller, count, barred>>
    BY <1>1 DEF BeginLifecycle
  <2>2. /\ w.pack = p /\ w.env = e /\ w.at \in {"done", "health"}
        /\ w.status \in {"UNKNOWN", "INVALID"}
    BY <1>0, <2>1 DEF IdleEvaluation
  <2> QED
    BY <2>1, <2>2, UnderFacts
<1>2. CASE CheckHealth(l)
  <2>1. /\ under' = under /\ w.pack = v.pack /\ w.env = v.env
        /\ w.at \in {"governance", "done"} /\ w.status \in {"UNKNOWN", "DISABLED", "INVALID"}
    BY <1>0, <1>2 DEF CheckHealth, Stage, EvaluationShape
  <2> QED
    BY <1>a, <2>1
<1>3. CASE ReadGovernance(l)
  <2>1. /\ under' = under /\ w.pack = v.pack /\ w.env = v.env /\ w.alone = v.alone
        /\ w.at = "allowance" /\ w.status = v.status
    BY <1>0, <1>3 DEF ReadGovernance, EvaluationShape
  <2> QED
    BY <1>a, <1>b, <2>1
<1>4. CASE CheckAllowance(l)
  <2> DEFINE stage == GovernanceStage(v.policy, Load[v.pack], v.env)
  <2>1. /\ stage \in {"PASS", "BLOCKED", "GOVERNANCE_REQUIRED"}
        /\ stage = "PASS" => CheckPackAllowed(Load[v.pack], v.env)
    BY StageFacts
  <2>2. /\ evaluation' = CASE stage = "PASS"    -> Forget(l, "enablement", v.status)
                           [] stage = "BLOCKED" -> Forget(l, "done", "BLOCKED")
                           [] OTHER             -> Forget(l, "enablement", stage)
        /\ under' = under
    BY <1>4 DEF CheckAllowance
  <2> HIDE DEF stage
  <2>3. CASE stage = "PASS"
    <3>1. evaluation' = Forget(l, "enablement", v.status)
      BY <2>2, <2>3
    <3> QED
      BY <1>a, <1>c, <2>1, <2>2, <2>3, <3>1
  <2>4. CASE stage = "BLOCKED"
    <3>1. evaluation' = Forget(l, "done", "BLOCKED")
      BY <2>2, <2>4
    <3> QED
      BY <1>a, <1>c, <2>2, <3>1
  <2>5. CASE stage = "GOVERNANCE_REQUIRED"
    <3>1. evaluation' = Forget(l, "enablement", "GOVERNANCE_REQUIRED")
      BY <2>2, <2>5
    <3> QED
      BY <1>a, <1>c, <2>2, <3>1
  <2> QED
    BY <2>1, <2>3, <2>4, <2>5
<1>5. CASE CheckEnablement(l)
  <2> DEFINE stage == EnablementStage(Load[v.pack], v.pack, v.env)
  <2>1. stage \in {"PASS", "DISABLED", "GOVERNANCE_REQUIRED"}
    BY StageFacts
  <2>2. /\ evaluation' = CASE stage = "PASS"     -> Stage(l, "registry", v.status)
                           [] stage = "DISABLED" -> Stage(l, "done", "DISABLED")
                           [] OTHER              -> Stage(l, "registry", stage)
        /\ under' = under /\ v.at = "enablement"
    BY <1>5 DEF CheckEnablement
  <2> HIDE DEF stage
  <2>3. CASE stage = "PASS"
    <3>1. evaluation' = Stage(l, "registry", v.status)
      BY <2>2, <2>3
    <3> QED
      BY <1>a, <1>b, <1>c, <2>2, <3>1
  <2>4. CASE stage = "DISABLED"
    <3>1. evaluation' = Stage(l, "done", "DISABLED")
      BY <2>2, <2>4
    <3> QED
      BY <1>a, <1>c, <2>2, <3>1
  <2>5. CASE stage = "GOVERNANCE_REQUIRED"
    <3>1. evaluation' = Stage(l, "registry", "GOVERNANCE_REQUIRED")
      BY <2>2, <2>5
    <3> QED
      BY <1>a, <1>c, <2>2, <3>1
  <2> QED
    BY <2>1, <2>3, <2>4, <2>5
<1>6. CASE CheckRegistry(l)
  <2>1. PICK status \in {"INVALID", "GOVERNANCE_REQUIRED", "UNTESTED", "READY_WITH_WARNINGS",
                         "READY"} :
            /\ evaluation' = Stage(l, "done", status) /\ under' = under /\ v.at = "registry"
            /\ v.status = "GOVERNANCE_REQUIRED" => status \in {"INVALID", "GOVERNANCE_REQUIRED"}
    BY <1>6 DEF CheckRegistry
  <2> QED
    BY <1>a, <1>b, <1>c, <2>1
<1>7. CASE LifecycleEnds(l)
  BY <1>0, <1>7, IdleTypes DEF LifecycleEnds
<1> QED
  BY <1>1, <1>2, <1>3, <1>4, <1>5, <1>6, <1>7 DEF EvaluatorStep

LEMMA EvaluatorKeeps ==
    ASSUME IndInv, NEW l \in Evaluator, EvaluatorStep(l)
    PROVE  IndInv'
<1>1. /\ TypeOK /\ BarsHold /\ CopiesHold /\ AloneHolds /\ CallHolds /\ EvaluationHolds
      /\ UNCHANGED <<file, command, caller, count, barred>>
      /\ \A q \in Evaluator \ {l} : evaluation'[q] = evaluation[q]
      /\ \A x : x # l => (x \in under' <=> x \in under)
  BY Parts, EvaluatorTouches
<1>2. TypeOK'
  BY <1>1, EvaluatorTypeOK
<1>3. BarsHold'
  BY <1>1 DEF BarsHold
<1>4. CopiesHold'
  BY <1>1 DEF CopiesHold
<1>5. AloneHolds'
  BY <1>1, OneEvaluationStep DEF AloneHolds, Load
<1>6. CallHolds'
  BY <1>1, GovernanceAssumption DEF CallHolds
<1>7. EvaluationHolds'
  BY <1>1, OneEvaluationStep DEF EvaluationHolds
<1> QED
  BY <1>2, <1>3, <1>4, <1>5, <1>6, <1>7, PartsPrimed

(***************************************************************************)
(* The steps of the commands keep the invariant.                            *)
(***************************************************************************)

\* A command that writes nothing leaves the bans to those who are under them.
LEMMA StillUnderKeeps ==
    ASSUME CallHolds, EvaluationHolds, NEW bans, bans \subseteq barred', UNCHANGED caller,
           under' = StillUnder(bans), TypeOK,
           \A l \in Evaluator : /\ evaluation'[l].pack = evaluation[l].pack
                                /\ evaluation'[l].env = evaluation[l].env
                                /\ evaluation'[l].at = evaluation[l].at
                                /\ evaluation'[l].status = evaluation[l].status
    PROVE  CallHolds' /\ EvaluationHolds'
<1>1. \A r \in Caller \cap under' :
          r \in under /\ <<caller[r].pack, caller[r].asked>> \in barred'
  BY DEF StillUnder
<1>2. \A l \in Evaluator \cap under' :
          l \in under /\ <<evaluation[l].pack, evaluation[l].env>> \in barred'
  BY DEF StillUnder
<1>3. CallHolds'
  BY <1>1 DEF CallHolds
<1>4. EvaluationHolds'
  BY <1>2 DEF EvaluationHolds
<1> QED
  BY <1>3, <1>4

LEMMA DisturbedFacts ==
    ASSUME TypeOK, evaluation' = Disturbed
    PROVE  /\ \A l \in Evaluator : /\ evaluation'[l].pack = evaluation[l].pack
                                   /\ evaluation'[l].env = evaluation[l].env
                                   /\ evaluation'[l].at = evaluation[l].at
                                   /\ evaluation'[l].status = evaluation[l].status
                                   /\ evaluation'[l].alone = FALSE
           /\ AloneHolds'
<1>1. \A l \in Evaluator : /\ evaluation'[l].pack = evaluation[l].pack
                           /\ evaluation'[l].env = evaluation[l].env
                           /\ evaluation'[l].at = evaluation[l].at
                           /\ evaluation'[l].status = evaluation[l].status
                           /\ evaluation'[l].alone = FALSE
  BY DEF Disturbed, TypeOK, EvaluationShape
<1> QED
  BY <1>1 DEF AloneHolds

\* What CopiesHold says of one command.
Copy(k, entries) ==
    /\ \A p \in Pack \ {k.pack} :
          IF k.blind THEN k.entries[p] = NoEntry
          ELSE p \in k.missed \/ k.entries[p] = entries[p]
    /\ k.enables => \A e \in Envs : CheckPackAllowed(k.entries[k.pack], e) => e \in k.envs
    /\ ~k.enables =>
          /\ \A e \in (IF k.envs = {} THEN Envs ELSE k.envs) :
                 ~CheckPackAllowed(k.entries[k.pack], e)
          /\ \/ k.pack \in k.missed
             \/ \A e \in Envs : CheckPackAllowed(k.entries[k.pack], e) =>
                                   CheckPackAllowed(entries[k.pack], e)

LEMMA CopiesPrimed ==
    /\ CopiesHold <=> \A c \in Command : command[c].at \in {"truncate", "write"} =>
                          Copy(command[c], file.entries)
    /\ CopiesHold' <=> \A c \in Command : command'[c].at \in {"truncate", "write"} =>
                          Copy(command'[c], file'.entries)
BY DEF CopiesHold, Copy

LEMMA CommandKeeps ==
    ASSUME IndInv, NEW c \in Command, CommandStep(c)
    PROVE  IndInv'
<1>0. /\ TypeOK /\ BarsHold /\ CopiesHold /\ AloneHolds /\ CallHolds /\ EvaluationHolds
      /\ TypeOK'
  BY Parts, CommandTypeOK
<1>a. command \in [Command -> CommandShape] /\ command[c] \in CommandShape
  BY <1>0 DEF TypeOK
<1>b. IdleCommand.at = "idle"
  BY IdleTypes
<1>2. CASE Enable(c) \/ Disable(c) \/ CrashCommand(c)
  <2>1. UNCHANGED <<file, caller, evaluation, barred, under>>
    BY <1>2 DEF Enable, Disable, CrashCommand
  <2>2. /\ command'[c].at \in {"idle", "load"}
        /\ \A d \in Command \ {c} : command'[d] = command[d]
    <3>0. CASE Enable(c)
      BY <3>0, <1>a DEF Enable, IdleCommand
    <3>1. CASE Disable(c)
      BY <3>1, <1>a DEF Disable, IdleCommand
    <3>2. CASE CrashCommand(c)
      BY <3>2, <1>a, <1>b DEF CrashCommand
    <3> QED
      BY <1>2, <3>0, <3>1, <3>2
  <2>3. CopiesHold'
    BY <1>0, <2>1, <2>2, CopiesPrimed
  <2>4. BarsHold' /\ AloneHolds' /\ CallHolds' /\ EvaluationHolds'
    BY <1>0, <2>1 DEF BarsHold, AloneHolds, Load, CallHolds, EvaluationHolds
  <2> QED
    BY <1>0, <2>3, <2>4, PartsPrimed
<1>3. CASE LoadPolicies(c)
  <2> DEFINE k == command[c]
             entries == IF k.enables THEN EnablePack(Load, k.pack, k.classification, k.envs)
                                     ELSE DisablePack(Load, k.pack, k.envs)
  <2>1. /\ UNCHANGED <<file, caller, evaluation, barred, under>>
        /\ command' = [command EXCEPT ![c].at = "truncate", ![c].entries = entries,
                                      ![c].blind = ~file.readable, ![c].missed = {}]
    BY <1>3 DEF LoadPolicies
  <2>2. k.pack \in Pack /\ k.classification \in CLASSIFICATIONS /\ k.envs \in SUBSET Envs
    BY <1>a DEF CommandShape
  <2>3. /\ \A q \in Pack \ {k.pack} : entries[q] = Load[q]
        /\ k.enables => \A e : CheckPackAllowed(entries[k.pack], e) => e \in k.envs
        /\ ~k.enables => /\ \A e \in (IF k.envs = {} THEN Envs ELSE k.envs) :
                                ~CheckPackAllowed(entries[k.pack], e)
                         /\ \A e : CheckPackAllowed(entries[k.pack], e) =>
                                      CheckPackAllowed(Load[k.pack], e)
    <3>1. CASE k.enables
      BY <1>0, <2>2, <3>1, LoadFacts, EnableFacts
    <3>2. CASE ~k.enables
      BY <1>0, <2>2, <3>2, LoadFacts, DisableFacts
    <3> QED
      BY <3>1, <3>2
  <2> HIDE DEF entries
  <2>4. /\ command'[c].pack = k.pack /\ command'[c].entries = entries
        /\ command'[c].blind = ~file.readable /\ command'[c].enables = k.enables
        /\ command'[c].envs = k.envs
        /\ \A d \in Command \ {c} : command'[d] = command[d]
    BY <1>a, <2>1 DEF CommandShape
  <2>5. \A q \in Pack : IF file.readable THEN Load[q] = file.entries[q] ELSE Load[q] = NoEntry
    BY DEF Load, Nothing
  <2>6. Copy(command'[c], file'.entries)
    <3>1. \A e : CheckPackAllowed(Load[k.pack], e) => CheckPackAllowed(file.entries[k.pack], e)
      BY <2>2, <2>5, EntryFacts
    <3> QED
      BY <2>1, <2>3, <2>4, <2>5, <3>1 DEF Copy
  <2>7. CopiesHold'
    BY <1>0, <2>1, <2>4, <2>6, CopiesPrimed
  <2>8. BarsHold' /\ AloneHolds' /\ CallHolds' /\ EvaluationHolds'
    BY <1>0, <2>1 DEF BarsHold, AloneHolds, Load, CallHolds, EvaluationHolds
  <2> QED
    BY <1>0, <2>7, <2>8, PartsPrimed
<1>4. CASE Truncate(c)
  <2>1. /\ UNCHANGED <<caller, barred, under>> /\ evaluation' = Disturbed
        /\ file'.entries = file.entries /\ command[c].at = "truncate"
    BY <1>0, <1>4 DEF Truncate, TypeOK
  <2>2. /\ \A d \in Command \ {c} : command'[d] = command[d]
        /\ command'[c].pack = command[c].pack /\ command'[c].entries = command[c].entries
        /\ command'[c].blind = command[c].blind /\ command'[c].enables = command[c].enables
        /\ command'[c].envs = command[c].envs /\ command'[c].missed = command[c].missed
    BY <1>4, <1>a DEF Truncate, CommandShape
  <2>3. Copy(command'[c], file'.entries)
    BY <1>0, <2>1, <2>2, CopiesPrimed DEF Copy
  <2>4. CopiesHold'
    BY <1>0, <2>1, <2>2, <2>3, CopiesPrimed
  <2>5. BarsHold'
    BY <1>0, <2>1 DEF BarsHold
  <2>6. AloneHolds'
    BY <1>0, <2>1, DisturbedFacts
  <2>7. CallHolds'
    BY <1>0, <2>1 DEF CallHolds
  <2>8. EvaluationHolds'
    BY <1>0, <2>1, DisturbedFacts DEF EvaluationHolds
  <2> QED
    BY <1>0, <2>4, <2>5, <2>6, <2>7, <2>8, PartsPrimed
<1>5. CASE Write(c)
  <2> DEFINE k == command[c]
             changed == {k.pack} \cup { p \in Pack : k.entries[p] # file.entries[p] }
             disabled == IF k.enables THEN {}
                         ELSE {k.pack} \X (IF k.envs = {} THEN Envs ELSE k.envs)
             enabled == IF k.enables THEN {k.pack} \X k.envs ELSE {}
             overlapped == { pe \in barred : pe[1] \in k.missed }
             kept == barred \ (enabled \cup overlapped)
  <2>a. file'.entries = k.entries
    <3>1. PICK readable \in BOOLEAN : file' = [readable |-> readable, entries |-> k.entries]
      BY <1>5 DEF Write
    <3> QED
      BY <3>1
  <2>b. /\ k.at = "write" /\ evaluation' = Disturbed
        /\ command' = [ d \in Command |->
               IF d = c THEN IdleCommand
               ELSE IF command[d].at = "idle" THEN command[d]
               ELSE [command[d] EXCEPT !.missed = @ \cup changed,
                                       !.mixed = @ \/ command[d].at = "write"] ]
        /\ barred' = kept \cup disabled
        /\ under' = StillUnder(kept) /\ UNCHANGED caller
    BY <1>5 DEF Write
  <2>1. k.at = "write" /\ file'.entries = k.entries /\ evaluation' = Disturbed
    BY <2>a, <2>b
  <2>2. BarsHold'
    <3> SUFFICES ASSUME NEW pe \in barred' PROVE ~CheckPackAllowed(k.entries[pe[1]], pe[2])
      BY <2>1 DEF BarsHold
    <3>0. Copy(k, file.entries)
      BY <1>0, <2>1, CopiesPrimed
    <3>1. CASE pe \in kept
      <4>1. /\ pe \in barred /\ pe \notin enabled /\ pe[1] \notin k.missed
            /\ pe[1] \in Pack /\ pe[2] \in Envs /\ pe = <<pe[1], pe[2]>>
        BY <1>0, <3>1 DEF TypeOK
      <4>2. ~CheckPackAllowed(file.entries[pe[1]], pe[2])
        BY <1>0, <4>1 DEF BarsHold
      <4>3. CASE pe[1] # k.pack
        BY <3>0, <4>1, <4>2, <4>3, EntryFacts DEF Copy
      <4>4. CASE pe[1] = k.pack /\ k.enables
        <5>1. pe[2] \notin k.envs
          BY <4>1, <4>4
        <5> QED
          BY <3>0, <4>1, <4>4, <5>1 DEF Copy
      <4>5. CASE pe[1] = k.pack /\ ~k.enables
        BY <3>0, <4>1, <4>2, <4>5 DEF Copy
      <4> QED
        BY <4>3, <4>4, <4>5
    <3>2. CASE pe \in disabled
      <4>1. Copy(k, file.entries)
        BY <3>0
      <4>2. /\ ~k.enables /\ pe[1] = k.pack
            /\ pe[2] \in (IF k.envs = {} THEN Envs ELSE k.envs)
        BY <3>2
      <4> QED
        BY <4>1, <4>2 DEF Copy
    <3> QED
      BY <2>b, <3>1, <3>2
  <2>3. CopiesHold'
    <3> SUFFICES ASSUME NEW d \in Command, command'[d].at \in {"truncate", "write"}
                 PROVE  Copy(command'[d], file'.entries)
      BY CopiesPrimed
    <3>1. d # c /\ command[d].at # "idle"
      BY <1>b, <2>b
    <3>2. command'[d] = [command[d] EXCEPT !.missed = @ \cup changed,
                                           !.mixed = @ \/ command[d].at = "write"]
      BY <2>b, <3>1
    <3>3. command[d] \in CommandShape
      BY <1>a
    <3>4. /\ command'[d].at = command[d].at /\ command'[d].pack = command[d].pack
          /\ command'[d].entries = command[d].entries /\ command'[d].blind = command[d].blind
          /\ command'[d].enables = command[d].enables /\ command'[d].envs = command[d].envs
          /\ command'[d].missed = command[d].missed \cup changed
      BY <3>2, <3>3 DEF CommandShape
    <3>5. Copy(command[d], file.entries)
      BY <1>0, <3>4, CopiesPrimed
    <3>6. \A p \in Pack : p \notin changed => k.entries[p] = file.entries[p]
      OBVIOUS
    <3> HIDE DEF changed
    <3>7. ASSUME NEW p \in Pack \ {command[d].pack}
          PROVE  IF command[d].blind THEN command[d].entries[p] = NoEntry
                 ELSE p \in command[d].missed \cup changed \/ command[d].entries[p] = file'.entries[p]
      BY <2>1, <3>5, <3>6 DEF Copy
    <3>8. /\ command[d].enables =>
                \A e \in Envs : CheckPackAllowed(command[d].entries[command[d].pack], e) =>
                                   e \in command[d].envs
          /\ ~command[d].enables =>
                \A e \in (IF command[d].envs = {} THEN Envs ELSE command[d].envs) :
                    ~CheckPackAllowed(command[d].entries[command[d].pack], e)
      BY <3>5 DEF Copy
    <3>9. ~command[d].enables =>
              \/ command[d].pack \in command[d].missed \cup changed
              \/ \A e \in Envs : CheckPackAllowed(command[d].entries[command[d].pack], e) =>
                                    CheckPackAllowed(file'.entries[command[d].pack], e)
      <4>1. command[d].pack \in Pack
        BY <3>3 DEF CommandShape
      <4> QED
        BY <2>1, <3>5, <3>6, <4>1 DEF Copy
    <3> QED
      BY <3>4, <3>7, <3>8, <3>9 DEF Copy
  <2>4. AloneHolds'
    BY <1>0, <2>1, DisturbedFacts
  <2>5. CallHolds' /\ EvaluationHolds'
    <3>1. kept \subseteq barred'
      BY <2>b
    <3> HIDE DEF kept
    <3> QED
      BY <1>0, <2>b, <3>1, DisturbedFacts, StillUnderKeeps
  <2> QED
    BY <1>0, <2>2, <2>3, <2>4, <2>5, PartsPrimed
<1> QED
  BY <1>2, <1>3, <1>4, <1>5 DEF CommandStep

(***************************************************************************)
(* The theorems.                                                            *)
(***************************************************************************)

LEMMA InitIndInv == Init => IndInv
<1> SUFFICES ASSUME Init PROVE IndInv
  OBVIOUS
<1>1. /\ barred = {} /\ under = {} /\ \A c \in Command : command[c].at = "idle"
      /\ \A r \in Caller : caller[r].op = "execute" /\ caller[r].at = "idle"
      /\ \A l \in Evaluator : evaluation[l].at = "idle" /\ evaluation[l].status = "UNKNOWN"
  BY IdleTypes DEF Init, IdleCaller
<1>2. BarsHold /\ CopiesHold /\ AloneHolds /\ CallHolds /\ EvaluationHolds
  BY <1>1 DEF BarsHold, CopiesHold, AloneHolds, CallHolds, EvaluationHolds, Asked
<1> QED
  BY <1>2, InitTypeOK, Parts

LEMMA StepIndInv == IndInv /\ [Next]_vars => IndInv'
<1> SUFFICES ASSUME IndInv, UNCHANGED vars PROVE IndInv'
  BY NextSteps, CommandKeeps, CallerKeeps, EvaluatorKeeps
<1> QED
  BY DEF vars, IndInv, TypeOK, DisabledIsRefused, BarsHold, UnderHolds, CopiesHold, AloneHolds, Load

\* tool_governance.py, toolpack_lifecycle.py: whoever asks after a pack was disabled does not
\* call it, and finds it not READY, whatever other commands do to the file meanwhile.
THEOREM InvariantCorrect == Spec => []IndInv
BY InitIndInv, StepIndInv, PTL DEF Spec

\* evaluate_toolpack_lifecycle(), evaluate_tool_governance(): a READY pack may be run.
THEOREM ReadyIsRunnableCorrect == Spec => []ReadyIsRunnable
<1>1. IndInv => ReadyIsRunnable
  <2> SUFFICES ASSUME IndInv, NEW l \in Evaluator, evaluation[l].alone,
                      evaluation[l].status \in {"READY", "READY_WITH_WARNINGS"}
               PROVE  LET v == evaluation[l]
                          policy == Load[v.pack]
                      IN  Verdict(policy.recorded, policy, Tool[v.pack], RegistryClass(v.pack),
                                  v.env, FALSE) = "ALLOW"
    BY DEF ReadyIsRunnable
  <2>1. CheckPackAllowed(Load[evaluation[l].pack], evaluation[l].env)
    BY DEF IndInv, AloneHolds
  <2>2. evaluation[l].pack \in Pack
    BY DEF IndInv, TypeOK, EvaluationShape
  <2>3. Load[evaluation[l].pack].recorded
    BY <2>1 DEF CheckPackAllowed
  <2> QED
    BY <2>1, <2>2, <2>3, AllowedIsRunnable
<1> QED
  BY <1>1, InvariantCorrect, PTL

\* enable_pack(), disable_pack(): a policy gets lost only where commands overlap, or one of
\* them read what an interrupted one left behind.
LEMMA PolicyStep ==
    ASSUME IndInv, [Next]_vars, NEW p \in Pack, file'.entries[p] # file.entries[p]
    PROVE  \E c \in Command :
               /\ command[c].at = "write" /\ command'[c].at = "idle"
               /\ command[c].pack = p \/ p \in command[c].missed \/ command[c].blind
<1>1. TypeOK /\ CopiesHold
  BY DEF IndInv
<1>2. PICK c \in Command : CommandStep(c)
  BY NextSteps, CallerTouches, EvaluatorTouches DEF vars
<1>3. Write(c)
  BY <1>1, <1>2 DEF CommandStep, Enable, Disable, LoadPolicies, Truncate, CrashCommand, TypeOK
<1>4. command[c].at = "write" /\ file'.entries = command[c].entries /\ command'[c] = IdleCommand
  <2>1. PICK readable \in BOOLEAN : file' = [readable |-> readable, entries |-> command[c].entries]
    BY <1>3 DEF Write
  <2> QED
    BY <1>3, <2>1 DEF Write
<1>5. Copy(command[c], file.entries)
  BY <1>1, <1>4, CopiesPrimed
<1> QED
  BY <1>4, <1>5, IdleTypes DEF Copy

THEOREM PolicyLostCorrect == Spec => PolicyLostByOverlapOnly
<1>1. IndInv /\ [Next]_vars =>
          [\A p \in Pack : file'.entries[p] # file.entries[p] =>
               \E c \in Command :
                   /\ command[c].at = "write" /\ command'[c].at = "idle"
                   /\ command[c].pack = p \/ p \in command[c].missed \/ command[c].blind]_vars
  BY PolicyStep
<1> QED
  BY <1>1, InvariantCorrect, PTL DEF PolicyLostByOverlapOnly, Spec
=============================================================================
