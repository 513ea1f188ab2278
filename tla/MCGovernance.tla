---------------------------- MODULE MCGovernance ----------------------------
(***************************************************************************)
(* Instances of Governance for TLC.                                        *)
(***************************************************************************)
EXTENDS Governance, TLC

CONSTANTS reader, sender

MCEnvs == {"demo", "dev"}

\* A tool that reads, live where it may, and one with a side effect.
MCTool ==
    ( reader :> [ core_or_optional |-> "optional", side_effect |-> FALSE, allow_live |-> TRUE,
                  requires_approval |-> FALSE, allow_live_side_effect |-> FALSE ] ) @@
    ( sender :> [ core_or_optional |-> "core", side_effect |-> TRUE, allow_live |-> TRUE,
                  requires_approval |-> TRUE, allow_live_side_effect |-> TRUE ] )

MCListed == (reader :> "enabled") @@ (sender :> "builtin")

\* The dev preset, with live use of both packs.
MCProfile == [ require_tool_governance |-> TRUE, allow_unknown_toolpacks |-> TRUE,
               allow_live_side_effects |-> TRUE, allow_reserved_live_profile |-> FALSE,
               allow_optional_toolpacks |-> TRUE, allowed_toolpacks |-> {reader, sender} ]

MCEnables == { <<"optional", {"dev"}>>, <<"high_risk", {"demo", "dev"}>>, <<"blocked", {"dev"}>> }

Symmetric == Permutations(Command)

MCDisables == { {}, {"demo"} }

\* Calls and evaluations only read: it is enough to look at one of them at a time.
OneReads ==
    \/ \A r \in Caller : caller[r].at = "idle"
    \/ \A l \in Evaluator : evaluation[l].at = "idle"
=============================================================================
