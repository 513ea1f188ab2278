----------------------------- MODULE PackPolicy -----------------------------
(***************************************************************************)
(* What may run: the policy of a tool pack (toolpack_governance.py), the    *)
(* runtime's decision about one tool call (tool_governance.py), the runtime *)
(* profile (runtime_environment.py) and the stages of a pack's lifecycle    *)
(* that read the policy (toolpack_lifecycle.py), each for given data.  The  *)
(* module Governance says when the data is read and who changes it.         *)
(*                                                                         *)
(* X_Faulty is a plausible bug in X, as in Orchestrator.                     *)
(***************************************************************************)
EXTENDS FiniteSets

CONSTANTS
    Pack,       \* the tool packs, each with one tool
    Tool,       \* what the validated descriptor says of the pack's tool
    Listed,     \* where the pack is: built in, or how enabled_toolpacks.json lists it
    Profile     \* the runtime profile (config/runtime_profile.json and the preset)

ENVIRONMENTS == {"demo", "dev", "test", "release", "pilot", "live"}

CLASSIFICATIONS == {"core", "optional", "experimental", "high_risk", "blocked"}

\* The environments the runtime guards, and those the lifecycle guards.
SAFE_ONLY_ENVS == {"demo", "release"}
Restricted == {"demo", "release", "live"}

\* An entry of toolpack_governance.json, as get_pack_policy() returns it.
NoEntry == [recorded |-> FALSE, classification |-> "unknown", enabled |-> {}]

Entry == [recorded : {TRUE}, classification : CLASSIFICATIONS, enabled : SUBSET ENVIRONMENTS]

Entries == [Pack -> Entry \cup {NoEntry}]

ToolShape == [ core_or_optional : {"core", "optional"}, side_effect : BOOLEAN,
               requires_approval : BOOLEAN, allow_live : BOOLEAN,
               allow_live_side_effect : BOOLEAN ]

ProfileShape == [ require_tool_governance : BOOLEAN, allow_unknown_toolpacks : BOOLEAN,
                  allow_live_side_effects : BOOLEAN, allow_reserved_live_profile : BOOLEAN,
                  allow_optional_toolpacks : BOOLEAN, allowed_toolpacks : SUBSET Pack ]

\* validate_toolpack_descriptor() refuses a side effect without approval, and a live side
\* effect of a tool that is not for live use.
ASSUME PackPolicyAssumption ==
    /\ Tool \in [Pack -> ToolShape]
    /\ Listed \in [Pack -> {"builtin", "enabled", "disabled", "absent"}]
    /\ Profile \in ProfileShape
    /\ \A p \in Pack : /\ Tool[p].side_effect => Tool[p].requires_approval
                       /\ Tool[p].allow_live_side_effect => Tool[p].allow_live

-----------------------------------------------------------------------------
\* toolpack_governance.py

EnablePack_Faulty(entries, p, classification, envs) ==
    [[q \in Pack |-> NoEntry] EXCEPT ![p] =
        [recorded |-> TRUE, classification |-> classification, enabled |-> envs]]

\* enable_pack(): the entry of the pack is replaced, or appended.
EnablePack(entries, p, classification, envs) ==
    [entries EXCEPT ![p] =
        [recorded |-> TRUE, classification |-> classification, enabled |-> envs]]

\* disable_pack(): without environments, the pack is blocked.
DisablePack(entries, p, envs) ==
    [entries EXCEPT ![p] =
        IF ~entries[p].recorded \/ envs = {}
        THEN [recorded |-> TRUE, classification |-> "blocked", enabled |-> {}]
        ELSE [entries[p] EXCEPT !.enabled = @ \ envs]]

\* _validate_enable_args()
EnableRefused(classification, envs) == classification = "blocked" /\ envs # {}

\* check_pack_allowed()
CheckPackAllowed(policy, env) ==
    policy.recorded /\ policy.classification # "blocked" /\ env \in policy.enabled

-----------------------------------------------------------------------------
\* toolpack_loader.py, tool_registry.py

\* discover_toolpacks(), _is_pack_allowed(): whose tools the registry has.
Registered(p) ==
    \/ Listed[p] = "builtin"
    \/ /\ Listed[p] = "enabled"
       /\ Tool[p].core_or_optional = "core" \/ Profile.allow_optional_toolpacks

\* The class of a tool in the registry.  The validated descriptor has no risk_class any
\* more, so the registry falls back to core_or_optional whatever the pack declared.
RegistryClass(p) == Tool[p].core_or_optional

-----------------------------------------------------------------------------
\* tool_governance.py, runtime_environment.py

UnknownAllowed_Faulty(env) == Profile.allow_unknown_toolpacks

UnknownAllowed(env) == env = "dev" /\ Profile.allow_unknown_toolpacks

\* evaluate_tool_governance(): its first read tells whether there is an entry, its second
\* what the entry allows; tool and class are what the caller says of the tool.
Verdict(recorded, policy, tool, class, env, live) ==
    IF ~Profile.require_tool_governance THEN "ALLOW"
    ELSE IF ~recorded THEN IF UnknownAllowed(env) THEN "WARN" ELSE "BLOCK"
    ELSE IF ~CheckPackAllowed(policy, env)
         THEN IF class = "unknown" /\ UnknownAllowed(env) THEN "WARN" ELSE "BLOCK"
    ELSE IF \/ class \in {"high_risk", "experimental"} /\ env \in SAFE_ONLY_ENVS
            \/ class = "blocked"
            \/ class = "high_risk" /\ env = "live"
            \/ live /\ tool.side_effect /\ ~tool.allow_live_side_effect
            \/ tool.side_effect /\ ~tool.requires_approval
         THEN "BLOCK"
    ELSE "ALLOW"

\* _runtime_profile_execution_decision() of the profile named env, for what differs
\* between the packs.
ProfileAllows(env, p, live) ==
    LET listed == p \in Profile.allowed_toolpacks
        external == Listed[p] # "builtin"
    IN  /\ Profile.require_tool_governance
        /\ env = "live" => Profile.allow_reserved_live_profile
        /\ live =>
            /\ env \notin {"demo", "test", "release"}
            /\ Profile.allowed_toolpacks # {} => listed
            /\ external => listed
            /\ IF Tool[p].side_effect
               THEN Profile.allow_live_side_effects /\ Tool[p].allow_live_side_effect
               ELSE Tool[p].allow_live

-----------------------------------------------------------------------------
\* toolpack_lifecycle.py

Unmet(env) == IF env \in Restricted THEN "BLOCKED" ELSE "GOVERNANCE_REQUIRED"

GovernanceStage_Faulty(policy, later, env) ==
    IF ~policy.recorded THEN Unmet(env)
    ELSE IF /\ policy.classification \in {"blocked", "high_risk", "experimental"}
            /\ env \in Restricted
         THEN "BLOCKED"
    ELSE "PASS"

\* _evaluate_governance() from the policy and, read after it, what is allowed.
GovernanceStage(policy, later, env) ==
    IF ~policy.recorded THEN Unmet(env)
    ELSE IF /\ policy.classification \in {"blocked", "high_risk", "experimental"}
            /\ env \in Restricted
         THEN "BLOCKED"
    ELSE IF CheckPackAllowed(later, env) THEN "PASS"
    ELSE Unmet(env)

\* _evaluate_enablement()
EnablementStage(policy, p, env) ==
    LET unmet == IF env \in Restricted THEN "DISABLED" ELSE "GOVERNANCE_REQUIRED"
    IN  CASE Listed[p] = "builtin"  -> "PASS"
          [] Listed[p] = "absent"   -> unmet
          [] Listed[p] = "disabled" -> "DISABLED"
          [] OTHER -> IF env \in policy.enabled THEN "PASS" ELSE unmet
=============================================================================
