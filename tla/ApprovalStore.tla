---------------------------- MODULE ApprovalStore ----------------------------
(***************************************************************************)
(* A persisted TaskFrame whose run has ended with staged actions, and the   *)
(* commands operators give on it: runtime/approval_commands.py, the CLI's   *)
(* `execute-approved` (src/taskframe_cli.py), and the operator UI's approve *)
(* all and live execution (src/operator_approval_actions.py, operator_ui.py).*)
(*                                                                         *)
(* Every command loads taskframe.json, changes its own copy and saves it;   *)
(* nothing locks the frame.  An operator is a process that gives one        *)
(* command after the other, and may crash anywhere in one.                  *)
(***************************************************************************)
EXTENDS Naturals, CompletionGate

CONSTANTS
    Operator,
    NumActions,     \* the number of staged actions of the frame
    Manifests,      \* what the frame's manifest may say
    Interfaces,     \* what the operators use: subset of {"command", "cli", "ui"}
    MaxCrashes,     \* bound on the crashes
    MaxCalls        \* calls are counted up to this

Action == 1..NumActions

\* The manifest's completion contract, and which actions recovery.py takes for
\* the same business effect.
Manifest ==
    [ effect : [Action -> Action],
      allow_pending_approval : BOOLEAN,
      success_outputs : {{}}, acceptable_empty_outputs : {{}},
      success_pending_actions : SUBSET Action,
      success_executed_actions : SUBSET Action,
      required_state : RequiredStates ]

\* What is saved of a frame: its state, the status of its pending_actions, its
\* executed_actions, and whether frame.errors has an entry without a step.
Frame == [ state : TASKFRAME_STATES,
           action : [Action -> PENDING_ACTION_STATUSES],
           executed : SUBSET Action,
           error : BOOLEAN ]

NoFrame == [state |-> "none"]

Staged == [ state |-> "WAITING_FOR_EXECUTE",
            action |-> [a \in Action |-> "PENDING_APPROVAL"],
            executed |-> {},
            error |-> FALSE ]

\* The steps behind the actions are STAGED and have published their outputs.
\* bad: a validation of the manifest fails on the frame.
Contents(f, bad) == [ status |-> [a \in Action |-> "STAGED"],
                      output |-> [a \in Action |-> "value"],
                      action |-> f.action,
                      badValidation |-> bad,
                      frameError |-> f.error ]

ASSUME ApprovalStoreAssumption ==
    /\ NumActions \in Nat /\ MaxCrashes \in Nat /\ MaxCalls \in Nat \ {0}
    /\ Interfaces \subseteq {"command", "cli", "ui"}
    /\ Manifests \subseteq Manifest
    /\ \A m \in Manifests : EvaluateCompletion(m, Contents(Staged, FALSE)) = "WAITING_FOR_EXECUTE"

VARIABLES
    manifest,
    disk,       \* taskframe.json
    temp,       \* taskframe.json.tmp, the same name for every process
    listed,     \* the frame's state as summary.json and the run ledger tell it
    op,         \* what every operator's process is doing
    view,       \* the actions the operator's screen shows as APPROVED
    approved,   \* the actions that were ever APPROVED in taskframe.json
    called,     \* the actions a live tool call was made for
    calls,      \* live tool calls made for every business effect
    crashes

vars == <<manifest, disk, temp, listed, op, view, approved, called, calls, crashes>>

\* A process: where it is, the frame it holds, the actions it has still to
\* execute, live or dry, on behalf of which interface, and what comes after the save.
Process == [ pc : {"idle", "execute", "write", "replace", "clean", "report"},
             frame : Frame, todo : SUBSET Action, live : BOOLEAN,
             via : {"command", "cli", "ui"},
             next : {"idle", "execute", "again", "show", "raise"} ]

IdleProcess == [ pc |-> "idle", frame |-> Staged, todo |-> {}, live |-> FALSE,
                 via |-> "command", next |-> "idle" ]

Init == /\ manifest \in Manifests
        /\ disk = Staged
        /\ temp = NoFrame
        /\ listed = Staged.state
        /\ op = [o \in Operator |-> IdleProcess]
        /\ view = [o \in Operator |-> {}]
        /\ approved = {}
        /\ called = {}
        /\ calls = [e \in Action |-> 0]
        /\ crashes = 0

-----------------------------------------------------------------------------
(* Helpers *)

With(f, a, st) == [f EXCEPT !.action[a] = st]

ActionsWith(f, st) == {a \in Action : f.action[a] = st}

\* The process is about to save f; next is what it does after that.
Saving(f, next) == [IdleProcess EXCEPT !.pc = "write", !.frame = f, !.next = next]

Idle(o) == op[o].pc = "idle"

\* The operator's process becomes p, and no file is touched.
Becomes(o, p) == /\ op' = [op EXCEPT ![o] = p]
                 /\ UNCHANGED <<manifest, disk, temp, listed, approved, crashes>>

\* A command is given to an interface.
Given(o, via) == Idle(o) /\ via \in Interfaces

Executable == {"WAITING_FOR_EXECUTE", "EXECUTING_PENDING"}

\* _require_waiting_for_execute()
Waiting == disk.state = "WAITING_FOR_EXECUTE"

-----------------------------------------------------------------------------
(* Commands: load the frame, check it, change the copy *)

Approve(o, a) ==
    /\ Given(o, "command")
    /\ Waiting
    /\ disk.action[a] = "PENDING_APPROVAL"
    /\ Becomes(o, Saving(With(disk, a, "APPROVED"), "idle"))
    /\ UNCHANGED <<view, called, calls>>

Reject(o, a) ==
    /\ Given(o, "command")
    /\ Waiting
    /\ disk.action[a] = "PENDING_APPROVAL"
    /\ Becomes(o, Saving([With(disk, a, "REJECTED") EXCEPT !.state = "FAILED_COMPLETION"],
                         "idle"))
    /\ UNCHANGED <<view, called, calls>>

ApprovedAll(f) == [f EXCEPT !.action =
    [a \in Action |-> IF @[a] = "PENDING_APPROVAL" THEN "APPROVED" ELSE @[a]]]

\* approve_all_pending_actions_command() looks at no state, and saves the frame
\* when there was nothing to approve as well; the screen then shows it.
ApproveAll(o) ==
    /\ Given(o, "ui")
    /\ Becomes(o, Saving(ApprovedAll(disk), "show"))
    /\ UNCHANGED <<view, called, calls>>

ToExecute_Faulty(f) == {a \in Action : f.action[a] \in InFlight}

ToExecute(f) == ActionsWith(f, "APPROVED")

\* execute_approved_pending_actions() begins.
Executing(f, live) == [ IdleProcess EXCEPT
    !.pc = "execute", !.frame = [f EXCEPT !.state = "EXECUTING_PENDING"],
    !.todo = ToExecute(f), !.live = live ]

\* execute_approved and execute_live_approved
ExecuteApproved(o) ==
    /\ Given(o, "command")
    /\ Waiting
    /\ ActionsWith(disk, "APPROVED") # {}
    /\ \E live \in BOOLEAN : Becomes(o, Executing(disk, live))
    /\ UNCHANGED <<view, called, calls>>

\* The approval is saved, then every approved action is executed dry.
ApproveAndExecute(o, a) ==
    /\ Given(o, "command")
    /\ Waiting
    /\ disk.action[a] = "PENDING_APPROVAL"
    /\ Becomes(o, Saving(With(disk, a, "APPROVED"), "execute"))
    /\ UNCHANGED <<view, called, calls>>

\* _run_execute_approved(): one action, through the tool runner alone.
ExecuteOne(o, a) ==
    /\ Given(o, "cli")
    /\ disk.action[a] = "APPROVED"
    /\ \E live \in BOOLEAN :
         /\ live => disk.state \in Executable
         /\ Becomes(o, [IdleProcess EXCEPT !.pc = "execute", !.frame = disk, !.todo = {a},
                                           !.live = live, !.via = "cli"])
    /\ UNCHANGED <<view, called, calls>>

Shown(o) == view' = [view EXCEPT ![o] = ActionsWith(disk, "APPROVED")]

\* The operator opens the run in the UI.
Refresh(o) ==
    /\ Given(o, "ui")
    /\ Shown(o)
    /\ UNCHANGED <<manifest, disk, temp, listed, op, approved, called, calls, crashes>>

\* _execute_live_pending_action(): the frame is loaded, the action is the one
\* on the screen, which shows no action any more once the result is in.
ExecuteShown(o, a) ==
    /\ Given(o, "ui")
    /\ a \in view[o]
    /\ disk.state \in Executable
    /\ Becomes(o, [IdleProcess EXCEPT !.pc = "execute", !.frame = disk, !.todo = {a},
                                      !.live = TRUE, !.via = "ui"])
    /\ view' = [view EXCEPT ![o] = {}]
    /\ UNCHANGED <<called, calls>>

-----------------------------------------------------------------------------
(* Execution *)

\* The tool runner comes to action a.
Turn(o, a) == /\ op[o].pc = "execute"
              /\ a \in op[o].todo
              /\ \A b \in op[o].todo : a <= b

Duplicates_Faulty(f, a) == {b \in f.executed : b = a}

\* _find_duplicate_executions() in executed_actions and pending_actions
Duplicates(f, a) == {b \in Action : /\ manifest.effect[b] = manifest.effect[a]
                                    /\ b \in f.executed \/ f.action[b] = "EXECUTED"}

SafeToExecute_Faulty(f, a) == Duplicates(f, a) = {}

\* verify_pending_action_safe_to_execute()
SafeToExecute(f, a) == f.state \in Executable /\ Duplicates(f, a) = {}

\* The status the tool runner gives the action; the UI's runner works on a copy
\* of the action, which is not saved.
Recorded(o, a, st) ==
    IF op[o].via = "ui" THEN op[o].frame ELSE With(op[o].frame, a, st)

Failed(o, a) ==
    [Recorded(o, a, "FAILED") EXCEPT !.state = "FAILED_EXECUTION", !.error = TRUE]

\* The action is refused before the tool is called: when it is not safe to
\* execute, or when another guard (governance, profile, arguments, guardrail)
\* objects.  Nothing ends the frame when a dry run of the CLI is refused, except
\* the governance policy, which is asked about safe actions only.
Refuse(o, a) ==
    /\ Turn(o, a)
    /\ \/ /\ op[o].via = "cli" /\ ~op[o].live => SafeToExecute(op[o].frame, a)
          /\ Becomes(o, Saving(Failed(o, a), "idle"))
       \/ /\ op[o].via = "cli" /\ ~op[o].live
          /\ Becomes(o, Saving([Failed(o, a) EXCEPT !.state = op[o].frame.state], "idle"))
    /\ UNCHANGED <<view, called, calls>>

Logged_Faulty(f, a) == [f EXCEPT !.executed = {a}]

\* The execution is appended to executed_actions.
Logged(f, a) == [f EXCEPT !.executed = @ \cup {a}]

\* The outside world is called for action a.
CallLive(a) ==
    /\ called' = called \cup {a}
    /\ calls' = [calls EXCEPT ![manifest.effect[a]] = IF @ < MaxCalls THEN @ + 1 ELSE @]

\* The tool returns.  A dry run in which it reports an error is recorded in
\* the same way and then fails the command.
Perform(o, a) ==
    /\ Turn(o, a)
    /\ SafeToExecute(op[o].frame, a)
    /\ LET f == Logged(Recorded(o, a, "EXECUTED"), a) IN
         \/ /\ op[o].via = "command"
            /\ Becomes(o, [op[o] EXCEPT !.frame = f, !.todo = @ \ {a}])
         \/ /\ op[o].via = "command" /\ ~op[o].live
            /\ Becomes(o, Saving([f EXCEPT !.state = "FAILED_EXECUTION"], "idle"))
         \/ /\ op[o].via # "command"
            /\ Becomes(o, Saving(f, "idle"))
    /\ IF op[o].live THEN CallLive(a) ELSE UNCHANGED <<called, calls>>
    /\ UNCHANGED view

\* The live tool raises, or answers that it failed.
FailLive(o, a) ==
    /\ Turn(o, a)
    /\ op[o].live
    /\ SafeToExecute(op[o].frame, a)
    /\ Becomes(o, Saving(Failed(o, a), "idle"))
    /\ CallLive(a)
    /\ UNCHANGED view

\* The rest of execute_approved_pending_actions(), verify_frame(), and what the
\* command does with the result.  When a validation or the gate raises, a dry
\* command saves nothing and a live one the frame as it is; a live command saves
\* a success twice.
Verify(o) ==
    /\ op[o].pc = "execute"
    /\ op[o].todo = {}
    /\ LET ended(st) == [op[o].frame EXCEPT !.state = st] IN
         \/ \E bad \in BOOLEAN :
              LET final == EvaluateCompletion(manifest, Contents(op[o].frame, bad)) IN
                /\ Applicable("VERIFYING", final)
                /\ Becomes(o, Saving(ended(final),
                                     IF op[o].live /\ final \in SuccessStates
                                     THEN "again" ELSE "idle"))
         \/ Becomes(o, IF op[o].live THEN Saving(ended("VERIFYING"), "idle")
                                     ELSE IdleProcess)
    /\ UNCHANGED <<view, called, calls>>

-----------------------------------------------------------------------------
(* persist_frame_update() *)

\* write_json_atomic() fills the temporary file, in one step: that another process
\* may move it while it is half written is left out,
WriteTemp(o) ==
    /\ op[o].pc = "write"
    /\ temp' = op[o].frame
    /\ op' = [op EXCEPT ![o].pc = "replace"]
    /\ UNCHANGED <<manifest, disk, listed, view, approved, called, calls, crashes>>

\* Another process has moved or removed the temporary file.
Taken == temp = NoFrame

\* moves it over taskframe.json, which raises when it is not there,
Replace(o) ==
    /\ op[o].pc = "replace"
    /\ IF Taken
       THEN /\ op' = [op EXCEPT ![o].pc = "clean", ![o].next = "raise"]
            /\ UNCHANGED <<disk, temp, approved>>
       ELSE /\ disk' = temp
            /\ temp' = NoFrame
            /\ approved' = approved \cup ActionsWith(disk', "APPROVED")
            /\ op' = [op EXCEPT ![o].pc = "clean"]
    /\ UNCHANGED <<manifest, listed, view, called, calls, crashes>>

\* and removes a temporary file that is still, or again, there.
Clean(o) ==
    /\ op[o].pc = "clean"
    /\ temp' = NoFrame
    /\ op' = [op EXCEPT ![o] = IF @.next = "raise" THEN IdleProcess
                                                  ELSE [@ EXCEPT !.pc = "report"]]
    /\ UNCHANGED <<manifest, disk, listed, view, approved, called, calls, crashes>>

Reported_Faulty(f) == Staged.state

Reported(f) == f.state

AfterSave(p) == CASE p.next = "execute" -> Executing(p.frame, FALSE)
                  [] p.next = "again"   -> Saving(p.frame, "idle")
                  [] OTHER              -> IdleProcess

\* The frame's other files and the line in the run ledger are written.
Report(o) ==
    /\ op[o].pc = "report"
    /\ listed' = Reported(op[o].frame)
    /\ op' = [op EXCEPT ![o] = AfterSave(op[o])]
    /\ IF op[o].next = "show" THEN Shown(o) ELSE UNCHANGED view
    /\ UNCHANGED <<manifest, disk, temp, approved, called, calls, crashes>>

Crash(o) ==
    /\ ~Idle(o)
    /\ crashes < MaxCrashes
    /\ crashes' = crashes + 1
    /\ op' = [op EXCEPT ![o] = IdleProcess]
    /\ view' = [view EXCEPT ![o] = {}]
    /\ UNCHANGED <<manifest, disk, temp, listed, approved, called, calls>>

-----------------------------------------------------------------------------
Command(o) == \/ \E a \in Action : \/ Approve(o, a) \/ Reject(o, a) \/ ApproveAndExecute(o, a)
                                   \/ ExecuteOne(o, a) \/ ExecuteShown(o, a)
              \/ ApproveAll(o) \/ ExecuteApproved(o) \/ Refresh(o)

Progress(o) == \/ \E a \in Action : Refuse(o, a) \/ Perform(o, a) \/ FailLive(o, a)
               \/ Verify(o) \/ WriteTemp(o) \/ Replace(o) \/ Clean(o) \/ Report(o)

Next == \E o \in Operator : Command(o) \/ Progress(o) \/ Crash(o)

Spec == Init /\ [][Next]_vars

-----------------------------------------------------------------------------
(* Properties *)

TypeOK ==
    /\ manifest \in Manifests
    /\ disk \in Frame
    /\ temp \in Frame \cup {NoFrame}
    /\ listed \in TASKFRAME_STATES
    /\ op \in [Operator -> Process]
    /\ view \in [Operator -> SUBSET Action]
    /\ approved \subseteq Action
    /\ called \subseteq Action
    /\ calls \in [Action -> 0..MaxCalls]
    /\ crashes \in 0..MaxCrashes

\* Whatever the operators' processes do to each other's files, a live call is
\* made only for an action that was APPROVED in taskframe.json at some time.
CalledWasApproved == called \subseteq approved

\* With one operator an effect is repeated only by a crash that loses the record
\* of a call, and at most once for every crash: the duplicate check finds every
\* call that was saved.
RepeatedByCrashesOnly == \A e \in Action : calls[e] <= 1 + crashes

Successors(st) == (UNION {PENDING_ACTION_TRANSITIONS[t] : t \in PENDING_ACTION_TRANSITIONS[st]})
                  \cup PENDING_ACTION_TRANSITIONS[st] \cup {st}

\* What is saved never goes back, for one operator and whichever interfaces they
\* use: the state of a frame that has ended is not saved over by another one,
\* and a status an action has in one version of taskframe.json is followed, in
\* the next, by one it can reach in at most two transitions of its life cycle
\* (it can be approved, or begin and end, between two saves).
LifeCycle ==
    [][/\ disk.state \in FinalStates => disk'.state = disk.state
       /\ \A a \in Action : disk'.action[a] \in Successors(disk.action[a])]_disk

\* A crash in an execution leaves no frame EXECUTING_PENDING: the state is never
\* saved, so that recovery has to look at the actions.
NeverMidExecution == disk.state # "EXECUTING_PENDING"

\* A frame is COMPLETED in taskframe.json only when it has executed every action
\* its contract asks for, has no action left in flight and no error, whichever
\* process saved over which.  (For contracts that wait for their actions: see
\* ApprovalStoreAssumption.)
CompletedOnDisk ==
    disk.state = "COMPLETED" =>
        /\ manifest.success_executed_actions \subseteq
               ActionsWith(disk, "EXECUTED") \cap disk.executed
        /\ \A a \in Action : disk.action[a] \notin InFlight
        /\ ~disk.error

\* When no process is in a command and none has crashed, the summary and the
\* ledger tell the state of the frame; for one operator.
ListingAgrees == (crashes = 0 /\ \A o \in Operator : Idle(o)) => listed = disk.state

-----------------------------------------------------------------------------
(* The inductive invariant behind CalledWasApproved, CompletedOnDisk and
   NeverMidExecution *)

\* What every copy of the frame satisfies, wherever it is.
Sound(f) ==
    /\ ActionsWith(f, "EXECUTED") \subseteq f.executed
    /\ f.state = "COMPLETED" =>
         /\ manifest.success_executed_actions \subseteq ActionsWith(f, "EXECUTED")
         /\ \A a \in Action : f.action[a] \notin InFlight
         /\ ~f.error

\* What a copy satisfies that is saved, or about to be.
Savable(f) == Sound(f) /\ f.state # "EXECUTING_PENDING"

\* What a copy satisfies while its actions are executed.
Executed(p) ==
    /\ Sound(p.frame)
    /\ p.frame.state # "COMPLETED"
    /\ p.frame.state = "EXECUTING_PENDING" => p.via = "command"

\* What a process satisfies: its copy of the frame, and what it may call live.
Fit(p) == /\ p.pc = "execute" => Executed(p)
          /\ p.pc # "execute" => Savable(p.frame)
          /\ p.live => p.todo \subseteq approved

\* Every copy of the frame is sound, and what a process may call live, or shows
\* as approved, was approved in taskframe.json.
IndInv ==
    /\ TypeOK
    /\ Savable(disk)
    /\ temp # NoFrame => Savable(temp)
    /\ \A o \in Operator : Fit(op[o]) /\ view[o] \subseteq approved
    /\ ActionsWith(disk, "APPROVED") \subseteq approved
    /\ CalledWasApproved

-----------------------------------------------------------------------------
(* The inductive invariant behind RepeatedByCrashesOnly, LifeCycle and
   ListingAgrees, for one operator *)

\* Copy f shows an execution of effect e.
Shows(f, e) == \E b \in Action : /\ manifest.effect[b] = e
                                 /\ b \in f.executed \/ f.action[b] = "EXECUTED"

\* Copy f keeps effect e from being called: SafeToExecute() refuses it.
Spent(f, e) == f.state \in FinalStates \/ Shows(f, e)

\* Every effect that no crash could still excuse repeating is spent in copy f.
Remembers(f) == \A e \in Action : calls[e] > crashes => Spent(f, e)

StatusesFollow(f) == \A a \in Action : f.action[a] \in Successors(disk.action[a])

\* An execution works on the frame as it is on disk, and a single action of the
\* CLI or the UI leaves its state alone.
SerialExecution(p) ==
    /\ StatusesFollow(p.frame)
    /\ p.via = "command" => /\ disk.state = "WAITING_FOR_EXECUTE"
                            /\ p.frame.state = "EXECUTING_PENDING"
    /\ p.via # "command" => /\ p.frame.state = disk.state
                            /\ p.todo # {}
                            /\ p.live => p.frame.state \in Executable
    /\ p.via = "ui" => p.live
    /\ p.via # "ui" => \A a \in p.todo : /\ p.frame.action[a] = "APPROVED"
                                         /\ disk.action[a] = "APPROVED"

\* What the only process there is has in hand, wherever it is.
Serial(p) ==
    /\ p.next # "raise"
    /\ p.next = "execute" => p.frame.state = "WAITING_FOR_EXECUTE"
    /\ Remembers(IF p.pc = "idle" THEN disk ELSE p.frame)
    /\ p.pc = "execute" => SerialExecution(p)
    /\ p.pc = "execute" /\ ~p.live => Remembers(disk)
    /\ p.pc \in {"write", "replace"} =>
          /\ disk.state \in FinalStates => p.frame.state = disk.state
          /\ StatusesFollow(p.frame)
    /\ p.pc = "replace" => temp = p.frame
    /\ p.pc \in {"clean", "report"} => disk = p.frame
    /\ p.pc \notin {"clean", "report"} /\ crashes = 0 => listed = disk.state

SerialInv == /\ \A o \in Operator : Serial(op[o])
             /\ \A a \in called : calls[manifest.effect[a]] > 0
             /\ RepeatedByCrashesOnly

-----------------------------------------------------------------------------
(* What docs and tests say, and does not hold *)

\* "That key prevents duplicate side effects when a pending action is retried or
\* resumed" (docs/recovery_and_idempotency.md:41)
LiveEffectOnce == \A e \in Action : calls[e] <= 1

=============================================================================
