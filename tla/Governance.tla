----------------------------- MODULE Governance -----------------------------
(***************************************************************************)
(* config/toolpack_governance.json and those who use it without a lock:     *)
(* the commands `tools enable' and `tools disable' rewrite it, the runtime  *)
(* reads it for every governed call of a tool and for live health probes,   *)
(* and the lifecycle evaluation reads it stage by stage.                    *)
(*                                                                         *)
(* A command reads the file, opens it for writing, which empties it, and    *)
(* writes the new text.  An evaluation of the runtime reads it twice        *)
(* (get_pack_policy(), check_pack_allowed()); a side effect is evaluated    *)
(* when it is staged and again when it is executed.                         *)
(*                                                                         *)
(* X_Faulty is a plausible bug in X, as in Orchestrator.                     *)
(***************************************************************************)
EXTENDS PackPolicy, Integers

CONSTANTS
    Command,        \* processes that enable and disable packs
    Caller,         \* processes that call tools of packs
    Evaluator,      \* processes that evaluate the lifecycle of a pack
    Envs,           \* the environments they work in
    Enables,        \* the classifications and environments `tools enable' is given
    Disables,       \* the environments `tools disable' is given; {}: none named
    MaxCommands,    \* bound on the commands
    MaxCrashes      \* bound on the crashes

ASSUME GovernanceAssumption ==
    /\ Pack # {} /\ Envs # {} /\ Envs \subseteq ENVIRONMENTS
    /\ Caller \cap Evaluator = {}
    /\ Enables \subseteq CLASSIFICATIONS \X SUBSET Envs
    /\ Disables \subseteq SUBSET Envs
    /\ MaxCommands \in Nat /\ MaxCrashes \in Nat

VARIABLES
    file,       \* toolpack_governance.json: the policies last written, and whether it parses
    command,    \* the commands
    caller,     \* the calls
    evaluation, \* the lifecycle evaluations
    count,      \* the commands and crashes so far
    barred,     \* history: where a pack was disabled, and since then neither enabled nor
                \* written by a command that had read the file before
    under       \* history: who began the present evaluation of such a pack

vars == <<file, command, caller, evaluation, count, barred, under>>

Ops == {"stage_pending_action", "execute", "execute_live", "execute_pending_action", "health"}

Statuses == { "UNKNOWN", "INVALID", "UNTESTED", "GOVERNANCE_REQUIRED", "DISABLED", "READY",
              "READY_WITH_WARNINGS", "BLOCKED" }

Classes == CLASSIFICATIONS \cup {"unknown"}

CommandShape ==
    [ at : {"idle", "load", "truncate", "write"}, enables : BOOLEAN, pack : Pack,
      classification : CLASSIFICATIONS, envs : SUBSET Envs,
      entries : Entries,        \* what it is going to write
      blind : BOOLEAN,          \* it read a file that does not parse
      mixed : BOOLEAN,          \* another command wrote since it emptied the file
      missed : SUBSET Pack ]    \* history: the packs others changed since it read the file

CallerShape ==
    [ at : {"idle", "policy", "check", "staged", "calling"},
      op : Ops, pack : Pack, env : Envs, live : BOOLEAN,
      asked : ENVIRONMENTS,     \* the environment the policy is asked for
      class : Classes,          \* what the caller says of the tool
      recorded : BOOLEAN,       \* the first read found an entry
      seen : Classes ]          \* history: the class the second read found

EvaluationShape ==
    [ at : {"idle", "health", "governance", "allowance", "enablement", "registry", "done"},
      pack : Pack, env : Envs, status : Statuses, untested : BOOLEAN, warned : BOOLEAN,
      policy : Entry \cup {NoEntry},
      alone : BOOLEAN ]         \* history: no command touched the file meanwhile

AnyPack == CHOOSE p \in Pack : TRUE
AnyEnv == CHOOSE e \in Envs : TRUE
Nothing == [p \in Pack |-> NoEntry]

IdleCommand ==
    [ at |-> "idle", enables |-> FALSE, pack |-> AnyPack, classification |-> "blocked",
      envs |-> {}, entries |-> Nothing, blind |-> FALSE, mixed |-> FALSE, missed |-> {} ]

IdleCaller ==
    [ at |-> "idle", op |-> "execute", pack |-> AnyPack, env |-> AnyEnv, live |-> FALSE,
      asked |-> AnyEnv, class |-> "unknown", recorded |-> FALSE, seen |-> "unknown" ]

IdleEvaluation ==
    [ at |-> "idle", pack |-> AnyPack, env |-> AnyEnv, status |-> "UNKNOWN",
      untested |-> FALSE, warned |-> FALSE, policy |-> NoEntry, alone |-> TRUE ]

\* Every pack starts with an entry for its environments, as in the file of the repository.
Init ==
    /\ file = [ readable |-> TRUE,
                entries |-> [p \in Pack |-> [ recorded |-> TRUE, classification |-> "optional",
                                             enabled |-> Envs ]] ]
    /\ command = [c \in Command |-> IdleCommand]
    /\ caller = [r \in Caller |-> IdleCaller]
    /\ evaluation = [l \in Evaluator |-> IdleEvaluation]
    /\ count = [commands |-> 0, crashes |-> 0]
    /\ barred = {}
    /\ under = {}

-----------------------------------------------------------------------------
\* toolpack_governance.py: the file

\* load_governance(): a file that does not parse has no entries.
Load == IF file.readable THEN file.entries ELSE Nothing

\* Every evaluation going on is no longer alone with the file.
Disturbed == [l \in Evaluator |-> [evaluation[l] EXCEPT !.alone = FALSE]]

\* Evaluations of pack p begun by x in environment e fall under a ban in force.
Under(x, p, e) == IF <<p, e>> \in barred THEN under \cup {x} ELSE under \ {x}

\* Who still falls under the bans that are left.
StillUnder(bans) ==
    { x \in under :
        /\ x \in Caller => <<caller[x].pack, caller[x].asked>> \in bans
        /\ x \in Evaluator => <<evaluation[x].pack, evaluation[x].env>> \in bans }

-----------------------------------------------------------------------------
\* taskframe tools enable / disable

\* _validate_enable_args() refuses before anything is read.
Enable(c) == \E p \in Pack, e \in Enables :
    /\ command[c].at = "idle" /\ count.commands < MaxCommands
    /\ ~EnableRefused(e[1], e[2])
    /\ command' = [command EXCEPT ![c] = [ IdleCommand EXCEPT
            !.at = "load", !.enables = TRUE, !.pack = p,
            !.classification = e[1], !.envs = e[2] ]]
    /\ count' = [count EXCEPT !.commands = @ + 1]
    /\ UNCHANGED <<file, caller, evaluation, barred, under>>

Disable(c) == \E p \in Pack, es \in Disables :
    /\ command[c].at = "idle" /\ count.commands < MaxCommands
    /\ command' = [command EXCEPT ![c] = [ IdleCommand EXCEPT
            !.at = "load", !.pack = p, !.envs = es ]]
    /\ count' = [count EXCEPT !.commands = @ + 1]
    /\ UNCHANGED <<file, caller, evaluation, barred, under>>

\* load_governance() and the change of the entry.
LoadPolicies(c) ==
    LET k == command[c]
        entries == IF k.enables THEN EnablePack(Load, k.pack, k.classification, k.envs)
                                ELSE DisablePack(Load, k.pack, k.envs)
    IN  /\ k.at = "load"
        /\ command' = [command EXCEPT ![c].at = "truncate", ![c].entries = entries,
                                      ![c].blind = ~file.readable, ![c].missed = {}]
        /\ UNCHANGED <<file, caller, evaluation, count, barred, under>>

\* save_governance(): opening the file for writing empties it.
Truncate(c) ==
    /\ command[c].at = "truncate"
    /\ command' = [command EXCEPT ![c].at = "write"]
    /\ file' = [file EXCEPT !.readable = FALSE]
    /\ evaluation' = Disturbed
    /\ UNCHANGED <<caller, count, barred, under>>

\* The text is written from the start of the file.  If another command wrote a longer text
\* since, the end of that one remains and the file does not parse.
\*
\* For the history: the command lifts the bans on the pack and environments it enables,
\* whatever it writes, and those it cannot know of, on packs that were changed since it
\* read the file; its own ban binds whoever begins after it.
Write(c) ==
    LET k == command[c]
        disabled == IF k.enables THEN {} ELSE {k.pack} \X (IF k.envs = {} THEN Envs ELSE k.envs)
        enabled == IF k.enables THEN {k.pack} \X k.envs ELSE {}
        overlapped == { pe \in barred : pe[1] \in k.missed }
        kept == barred \ (enabled \cup overlapped)
        changed == {k.pack} \cup { p \in Pack : k.entries[p] # file.entries[p] }
    IN  /\ k.at = "write"
        /\ \E readable \in (IF k.mixed THEN BOOLEAN ELSE {TRUE}) :
               file' = [readable |-> readable, entries |-> k.entries]
        /\ command' = [ d \in Command |->
               IF d = c THEN IdleCommand
               ELSE IF command[d].at = "idle" THEN command[d]
               ELSE [command[d] EXCEPT !.missed = @ \cup changed,
                                       !.mixed = @ \/ command[d].at = "write"] ]
        /\ evaluation' = Disturbed
        /\ barred' = kept \cup disabled
        /\ under' = StillUnder(kept)
        /\ UNCHANGED <<caller, count>>

\* The process dies before it has written.
CrashCommand(c) ==
    /\ command[c].at # "idle" /\ count.crashes < MaxCrashes
    /\ command' = [command EXCEPT ![c] = IdleCommand]
    /\ count' = [count EXCEPT !.crashes = @ + 1]
    /\ UNCHANGED <<file, caller, evaluation, barred, under>>

-----------------------------------------------------------------------------
\* tool_runner.py: the calls

\* _governance_environment(): in demo, a live read of an optional external tool is judged
\* as in dev, if the tool was enabled for dev when the process imported the registry, which
\* may be long ago.
GovernanceEnvironments(p, e, live) ==
    IF /\ e = "demo" /\ live
       /\ ~Tool[p].side_effect /\ Tool[p].core_or_optional = "optional"
    THEN {"demo", "dev"} ELSE {e}

\* run_step() with a registered tool of the pack: a side effect is staged, other tools are
\* executed, live or dry.
RunStep(r) == \E p \in Pack, e \in Envs, live \in BOOLEAN :
    LET staging == Tool[p].side_effect
    IN  /\ caller[r].at = "idle" /\ Registered(p)
        /\ \E asked \in GovernanceEnvironments(p, e, live /\ ~staging) :
               /\ caller' = [caller EXCEPT ![r] = [ IdleCaller EXCEPT
                      !.at = "policy", !.pack = p, !.env = e, !.asked = asked,
                      !.op = IF staging THEN "stage_pending_action" ELSE "execute",
                      !.live = live /\ ~staging, !.class = RegistryClass(p) ]]
               /\ under' = Under(r, p, asked)
        /\ UNCHANGED <<file, command, evaluation, count, barred>>

\* execute_pending_action() and execute_live_pending_action() of an approved action.
ExecuteStaged(r) == \E live \in BOOLEAN :
    /\ caller[r].at = "staged"
    /\ caller' = [caller EXCEPT ![r].at = "policy", ![r].op = "execute_pending_action",
                                ![r].live = live]
    /\ under' = Under(r, caller[r].pack, caller[r].asked)
    /\ UNCHANGED <<file, command, evaluation, count, barred>>

\* _check_toolpack() with live: the probe takes the class from the policy.
ProbeHealth(r) == \E p \in Pack, e \in Envs :
    /\ caller[r].at = "idle"
    /\ caller' = [caller EXCEPT ![r] = [ IdleCaller EXCEPT
           !.at = "policy", !.op = "health", !.pack = p, !.env = e, !.asked = e,
           !.live = TRUE, !.class = Load[p].classification ]]
    /\ under' = Under(r, p, e)
    /\ UNCHANGED <<file, command, evaluation, count, barred>>

\* evaluate_tool_governance(), the first read of the policy.
ReadPolicy(r) ==
    /\ caller[r].at = "policy"
    /\ caller' = [caller EXCEPT ![r].at = "check", ![r].recorded = Load[caller[r].pack].recorded]
    /\ UNCHANGED <<file, command, evaluation, count, barred, under>>

\* The tool as it is described to the evaluation; a health probe claims no side effect.
Described(k) == IF k.op = "health" THEN [Tool[k.pack] EXCEPT !.side_effect = FALSE]
                                   ELSE Tool[k.pack]

\* The runtime profile is asked after the governance, but not about probes, not by
\* execute_live_tool() again and not by execute_pending_action(), the dry one.
AsksProfile(k) ==
    \/ k.op \in {"stage_pending_action", "execute"}
    \/ k.op = "execute_pending_action" /\ k.live

Passes(k, policy) ==
    /\ Verdict(k.recorded, policy, Described(k), k.class, k.asked, k.live) # "BLOCK"
    /\ AsksProfile(k) => ProfileAllows(k.env, k.pack, k.live)

\* The second read.  What does not pass fails, the step or the action with it; a live step
\* is evaluated again by execute_live_tool().
Decide(r) ==
    LET k == caller[r]
        policy == Load[k.pack]
        passed(at) == caller' = [caller EXCEPT ![r].at = at, ![r].recorded = FALSE,
                                               ![r].seen = policy.classification]
    IN  /\ k.at = "check"
        /\ \/ /\ ~Passes(k, policy)
              /\ caller' = [caller EXCEPT ![r] = IdleCaller]
              /\ under' = under \ {r}
           \/ /\ Passes(k, policy)
              /\ k.op = "stage_pending_action"
              /\ passed("staged")
              /\ under' = under \ {r}
           \/ /\ Passes(k, policy)
              /\ k.op = "execute" /\ k.live
              /\ caller' = [caller EXCEPT ![r].at = "policy", ![r].op = "execute_live",
                                          ![r].recorded = FALSE]
              /\ under' = Under(r, k.pack, k.asked)
           \/ /\ Passes(k, policy)
              /\ k.op # "stage_pending_action" /\ ~(k.op = "execute" /\ k.live)
              /\ passed("calling")
              /\ UNCHANGED under
        /\ UNCHANGED <<file, command, evaluation, count, barred>>

\* The tool has been called.
CallEnds(r) ==
    /\ caller[r].at = "calling"
    /\ caller' = [caller EXCEPT ![r] = IdleCaller]
    /\ under' = under \ {r}
    /\ UNCHANGED <<file, command, evaluation, count, barred>>

-----------------------------------------------------------------------------
\* toolpack_lifecycle.py: evaluate_toolpack_lifecycle()

Stage(l, at, status) == [evaluation EXCEPT ![l].at = at, ![l].status = status]

Forget(l, at, status) == [Stage(l, at, status) EXCEPT ![l].policy = NoEntry]

\* Discovery, validation and contract tests end it, are skipped (the tests) or pass.
BeginLifecycle(l) == \E p \in Pack, e \in Envs, tests \in {"UNKNOWN", "INVALID", "UNTESTED", "PASS"} :
    LET ends == tests \in {"UNKNOWN", "INVALID"}
    IN  /\ evaluation[l].at = "idle"
        /\ evaluation' = [evaluation EXCEPT ![l] = [ IdleEvaluation EXCEPT
               !.at = IF ends THEN "done" ELSE "health", !.pack = p, !.env = e,
               !.status = IF ends THEN tests ELSE "UNKNOWN",
               !.untested = tests = "UNTESTED" ]]
        /\ under' = Under(l, p, e)
        /\ UNCHANGED <<file, command, caller, count, barred>>

\* check_toolpack_health(): a pack listed as disabled, or not listed, is not probed.  Of an
\* optional read-only pack, missing credentials are but a warning.
CheckHealth(l) == \E health \in {"skipped", "passes", "warns", "fails"} :
    LET p == evaluation[l].pack
    IN  /\ evaluation[l].at = "health"
        /\ health = "warns" => Tool[p].core_or_optional = "optional" /\ ~Tool[p].side_effect
        /\ evaluation' =
               IF health = "skipped" THEN [Stage(l, "governance", "UNKNOWN") EXCEPT ![l].untested = TRUE]
               ELSE IF Listed[p] = "disabled" THEN Stage(l, "done", "DISABLED")
               ELSE IF Listed[p] = "absent" \/ health = "fails" THEN Stage(l, "done", "INVALID")
               ELSE [Stage(l, "governance", "UNKNOWN") EXCEPT ![l].warned = health = "warns"]
        /\ UNCHANGED <<file, command, caller, count, barred, under>>

ReadGovernance(l) ==
    /\ evaluation[l].at = "governance"
    /\ evaluation' = [evaluation EXCEPT ![l].at = "allowance",
                                        ![l].policy = Load[evaluation[l].pack]]
    /\ UNCHANGED <<file, command, caller, count, barred, under>>

\* A stage that asks for governance does not end the evaluation, but is not forgotten.
CheckAllowance(l) ==
    LET v == evaluation[l]
        stage == GovernanceStage(v.policy, Load[v.pack], v.env)
    IN  /\ v.at = "allowance"
        /\ evaluation' = CASE stage = "PASS"    -> Forget(l, "enablement", v.status)
                           [] stage = "BLOCKED" -> Forget(l, "done", "BLOCKED")
                           [] OTHER             -> Forget(l, "enablement", stage)
        /\ UNCHANGED <<file, command, caller, count, barred, under>>

CheckEnablement(l) ==
    LET v == evaluation[l]
        stage == EnablementStage(Load[v.pack], v.pack, v.env)
    IN  /\ v.at = "enablement"
        /\ evaluation' = CASE stage = "PASS"     -> Stage(l, "registry", v.status)
                           [] stage = "DISABLED" -> Stage(l, "done", "DISABLED")
                           [] OTHER              -> Stage(l, "registry", stage)
        /\ UNCHANGED <<file, command, caller, count, barred, under>>

\* _evaluate_registry_integration(), _evaluate_example_manifest_smoke() and the result.  A
\* pack that is listed passes with its capability alone, registered or not.
CheckRegistry(l) == \E builds \in BOOLEAN, smoke \in {"PASS", "FAIL", "UNTESTED"} :
    LET v == evaluation[l]
        status == IF ~builds \/ Listed[v.pack] = "absent" \/ smoke = "FAIL" THEN "INVALID"
                  ELSE IF v.status = "GOVERNANCE_REQUIRED" THEN v.status
                  ELSE IF v.untested \/ smoke = "UNTESTED" THEN "UNTESTED"
                  ELSE IF v.warned THEN "READY_WITH_WARNINGS" ELSE "READY"
    IN  /\ v.at = "registry"
        /\ evaluation' = Stage(l, "done", status)
        /\ UNCHANGED <<file, command, caller, count, barred, under>>

LifecycleEnds(l) ==
    /\ evaluation[l].at = "done"
    /\ evaluation' = [evaluation EXCEPT ![l] = IdleEvaluation]
    /\ under' = under \ {l}
    /\ UNCHANGED <<file, command, caller, count, barred>>

-----------------------------------------------------------------------------
Next ==
    \/ \E c \in Command : \/ Enable(c) \/ Disable(c) \/ LoadPolicies(c)
                          \/ Truncate(c) \/ Write(c) \/ CrashCommand(c)
    \/ \E r \in Caller : \/ RunStep(r) \/ ExecuteStaged(r) \/ ProbeHealth(r) \/ ReadPolicy(r)
                         \/ Decide(r) \/ CallEnds(r)
    \/ \E l \in Evaluator : \/ BeginLifecycle(l) \/ CheckHealth(l) \/ ReadGovernance(l)
                            \/ CheckAllowance(l) \/ CheckEnablement(l) \/ CheckRegistry(l)
                            \/ LifecycleEnds(l)

Spec == Init /\ [][Next]_vars

-----------------------------------------------------------------------------
TypeOK ==
    /\ file \in [readable : BOOLEAN, entries : Entries]
    /\ command \in [Command -> CommandShape]
    /\ caller \in [Caller -> CallerShape]
    /\ evaluation \in [Evaluator -> EvaluationShape]
    /\ count \in [commands : Nat, crashes : Nat]
    /\ barred \subseteq Pack \X Envs
    /\ under \subseteq Caller \cup Evaluator

\* A pack that was disabled, and not enabled since, is not called by anyone who asked for
\* it afterwards, and its lifecycle is not READY: not even when the action was staged
\* before, another command changed the file between the two reads, or commands about other
\* packs wrote since.  Those must have read the file after the disable: one that read it
\* before may bring the pack back, which PolicyLostByOverlapOnly names, and ends the ban here.
\* The other exceptions are dev with unknown packs allowed (a file that is being rewritten,
\* or that an interrupted command left behind, makes every pack unknown), and health probes
\* under a profile that requires no governance, which allows nothing else.
DisabledIsRefused ==
    /\ \A r \in Caller \cap under :
           caller[r].at = "calling" =>
               \/ caller[r].asked = "dev" /\ Profile.allow_unknown_toolpacks
               \/ caller[r].op = "health" /\ ~Profile.require_tool_governance
    /\ \A l \in Evaluator \cap under :
           evaluation[l].status \notin {"READY", "READY_WITH_WARNINGS"}

\* What a command leaves in the file for a pack it was not about, is what was there, unless
\* another command wrote it meanwhile, or the file did not parse when the command read it:
\* the two ways a policy gets lost, both out of commands that overlap or are interrupted.
PolicyLostByOverlapOnly ==
    [][\A p \in Pack : file'.entries[p] # file.entries[p] =>
           \E c \in Command :
               /\ command[c].at = "write" /\ command'[c].at = "idle"
               /\ command[c].pack = p \/ p \in command[c].missed \/ command[c].blind]_vars

\* The two judges agree: when the lifecycle finds a pack READY in an environment, and no
\* command touched the file meanwhile, the runtime allows its tools there in a dry run.
ReadyIsRunnable ==
    \A l \in Evaluator :
        LET v == evaluation[l]
            policy == Load[v.pack]
        IN  v.alone /\ v.status \in {"READY", "READY_WITH_WARNINGS"} =>
                Verdict(policy.recorded, policy, Tool[v.pack], RegistryClass(v.pack), v.env, FALSE)
                    = "ALLOW"

-----------------------------------------------------------------------------
\* The inductive invariant.

\* Where a pack is barred, the file does not allow it.
BarsHold == \A pe \in barred : ~CheckPackAllowed(file.entries[pe[1]], pe[2])

\* Those under a ban are about a pack that is barred, and an evaluation among them has
\* asked for governance as soon as it has looked.  The profile has let through what is
\* judged for the second time.
UnderHolds ==
    /\ \A r \in Caller \cap under : <<caller[r].pack, caller[r].asked>> \in barred
    /\ \A r \in Caller :
          \/ caller[r].at = "staged"
          \/ caller[r].op \in {"execute_live", "execute_pending_action"}
          => Profile.require_tool_governance
    /\ \A l \in Evaluator \cap under :
          /\ <<evaluation[l].pack, evaluation[l].env>> \in barred
          /\ evaluation[l].at \in {"enablement", "registry"} =>
                evaluation[l].status = "GOVERNANCE_REQUIRED"

\* What a command is going to write: for its pack, what it was given; for the others, what
\* is in the file or, when it could not read the file, nothing, unless it has missed them;
\* a disable allows its own pack nothing that was not allowed.
CopiesHold ==
    \A c \in Command : command[c].at \in {"truncate", "write"} =>
        LET k == command[c]
        IN  /\ \A p \in Pack \ {k.pack} :
                  IF k.blind THEN k.entries[p] = NoEntry
                  ELSE p \in k.missed \/ k.entries[p] = file.entries[p]
            /\ k.enables =>
                  \A e \in Envs : CheckPackAllowed(k.entries[k.pack], e) => e \in k.envs
            /\ ~k.enables =>
                  /\ \A e \in (IF k.envs = {} THEN Envs ELSE k.envs) :
                         ~CheckPackAllowed(k.entries[k.pack], e)
                  /\ \/ k.pack \in k.missed
                     \/ \A e \in Envs : CheckPackAllowed(k.entries[k.pack], e) =>
                                           CheckPackAllowed(file.entries[k.pack], e)

\* An evaluation that is alone with the file has seen what is in it.
AloneHolds ==
    \A l \in Evaluator :
        LET v == evaluation[l]
        IN  /\ v.alone
            /\ \/ v.at \in {"enablement", "registry"} /\ v.status # "GOVERNANCE_REQUIRED"
               \/ v.status \in {"READY", "READY_WITH_WARNINGS"}
            => CheckPackAllowed(Load[v.pack], v.env)

IndInv ==
    TypeOK /\ DisabledIsRefused /\ BarsHold /\ UnderHolds /\ CopiesHold /\ AloneHolds
=============================================================================
