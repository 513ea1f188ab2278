# The TaskFrame runtime in TLA+

`runtime/` executes *manifests* (JSON workflows) step by step on a *TaskFrame*, the case file of one
run. A step whose tool has a side effect does not perform it: it *stages* an action, the frame waits
for a human, and only an approved action is executed, dry or live. Frames are persisted as files;
operators give approval commands on them from other processes, and outside events start new ones.

The modules here model that core, and the four things around it that several processes share as files:
the store of runs with its cleanup and backup, the policies of tool packs, the manifests, and the inbox of
customer messages. TLC checks them on small instances, and TLAPS proves the most
important facts for every value of the constants. Paths are relative to the repository.

## 1. Inventory

### The parts with state of their own

| Part | State | Operations | What is hard | What makes it correct |
| --- | --- | --- | --- | --- |
| Orchestrator (`runtime/orchestrator.py`, `retry_policy.py`) | the frame in memory: state, step statuses and attempts, outputs, pending actions, validations, errors | `prepare_frame`, `run_until_blocked`, `run_next_step`, `verify_frame`, `approve_` / `reject_` / `execute_approved_pending_actions` | retries, timeouts noticed only after the step has run, rollback of an attempt field by field, steps that stage instead of doing | nothing of a failed attempt is left; steps run in order; a call returns in a state somebody can act on; every call returns |
| TaskFrame (`taskframe.py`, `models.py`) | the transition tables | `transition_state`, `create_taskframe` | states assigned directly, around the table | final states are final |
| Completion gate (`completion_gate.py`) | none | `evaluate_completion`, `apply_completion_result` | ten rules over independent contract options; a verdict the transition table refuses | success only when nothing is half done |
| Pending actions (`pending_actions.py`, `approval.py`, `tool_runner.py`, `recovery.py`) | status of every action, `executed_actions` | stage, approve, reject, execute dry or live, duplicate check | several actions for one business effect; a live tool that fails after its effect | approved before executed; one live call per effect |
| Approval commands (`approval_commands.py`, `src/taskframe_cli.py`, `src/operator_ui.py`, `src/operator_approval_actions.py`) | none; they load, change and save a frame | `approve`, `reject`, `execute_approved`, `execute_live_approved`, `approve_and_execute`, `execute-approved`, approve all, execute live | no lock; a crash between the call and the save; a UI that shows an older frame | no status goes back, no effect twice, final stays final |
| Frame persistence (`persistence.py`, `taskframe_reload.py`, `run_ledger.py`) | four files per frame, one ledger | `persist_frame_update`, `save_snapshot`, `load_taskframe` | one temporary name for all processes; a crash between the files | a reload sees a frame some process has saved whole |
| Event intake (`event_store.py`, `event_queue.py`, `event_router.py`, `events.py`) | event ledger and index, queue ledger and index | `intake_event`, `intake_and_run_event`, `replay_event_dry_run` | redelivery, overlapping intakes, files rewritten in place, a crash between them | one frame per event; every link names the right frame; no frame run twice |
| Recovery (`recovery.py`) | none | `verify_pending_action_safe_to_execute`, `assess_recovery` | a persisted frame that was interrupted anywhere | never advises what repeats an effect |
| Retention, cleanup, backup (`retention_policy.py`, `artifact_cleanup.py`, `cleanup_commands.py`, `artifact_index.py`, `runtime_store.py`, `run_report.py`) | reports, approval packs, temporary files, the artifact index | cleanup by policy, backup, report generation | candidates are found by a summary that is written last and deleted later, by path; files copied one by one while frames are saved | protected evidence stays; no save loses its file; an archive agrees with itself |
| Tool pack governance (`src/toolpack_governance.py`, `src/toolpack_lifecycle.py`, `src/toolpack_loader.py`, `tool_governance.py`, `tool_health.py`) | `config/toolpack_governance.json` | `tools enable`, `tools disable`, `evaluate_tool_governance`, the lifecycle evaluation, health probes | a file rewritten in place; two reads per decision, three per evaluation; actions staged under one policy and executed under another | a disabled pack is refused; no policy gets lost; the lifecycle and the runtime agree |
| Manifest catalog (`src/manifest_workbench.py`, `src/manifest_template_generator.py`, `manifest_loader.py`) | the manifest files | save, duplicate, rename, archive, restore, create from template; `load_manifest_catalog`, `load_manifest_by_id` | look first, write later; operations of several file steps; a reader that gives up on one bad file; two listings with different rules | ids are unique; one operation takes no other manifest out of service; no content gets lost; a load tells the truth |
| Customer inbox (`customer_inbox.py`, `src/operator_customer_inbox_runner.py`, `src/operator_approval_actions.py`) | `customer_messages.json`: every message's status and its frame | seed, reset, process a message, copy a frame's outcome to its message | a list that is read and written whole, without a lock; a status that is checked, and a frame that is looked at, long before the update | what the inbox says of a reply was so; one reply per message; the message agrees with its frame |

### How they interact

All interaction is by call and by file. The CLI, the UI and the event intake create or load a frame and
call the orchestrator in their own process. The orchestrator calls the tool runner for every step and
every execution, the tool runner asks `recovery.py` for duplicates before it calls a tool, and the
orchestrator ends a run with the gate. Between processes there are only files: `taskframe.json` of
every frame and what is written beside it, `event_index.json` and `event_queue_index.json`, the manifests, the
inbox, and `toolpack_governance.json`, which the tool runner reads before every call of a pack's tool. None is locked.

### The other parts

Conditions and argument resolution, step handlers (LLM, memory, inspection, maintenance), the tool
registry's tables, event sources and inspection, store scans and restore, what reports say, domain tools (invoices,
orders, messages, shipments ...), tool packs and scripts, views and demos, and the separate `bits` prototype.
`PROJECT.json` lists them with the reason each is modelled by its outcomes only, or not at all (section 5).

## 2. Modules

```
TaskFrame ── CompletionGate ──┬── Orchestrator ───── MCOrchestrator        EventIntake ─── MCEventIntake
  │  │                        │     │  └─ OrchestratorProofs                   └─ IntakeProofs
  │  └── ActionGate ··········│·····┘  (refinement)                        PackPolicy ──── Governance ── MCGovernance
  │                           ├── ApprovalStore ── RecoveryAdvice ── MCApprovalStore      └─ GovernanceProofs
  │                           │        └─ ApprovalProofs                   ManifestCatalog ── MCManifestCatalog
  │                           └── CustomerInbox ── MCCustomerInbox              └─ CatalogProofs
  └── StoreCleanup ── MCStoreCleanup    └─ InboxProofs
            └─ StoreCleanupProofs                      GateProofs (cited by ApprovalProofs, InboxProofs)
```

**TaskFrame** holds the tables of `taskframe.py` and `pending_actions.py`.

**CompletionGate** is `evaluate_completion()`, rule by rule and in its order, as an operator on a
contract and the contents of a frame. The two state machines use it on frames they have reached.

**ActionGate** is the abstract promise about side effects: staged, approved or rejected, performed only
when approved, called live at most once per business effect. It knows no steps, retries or frames.

**Orchestrator** is one frame in memory, one call at a time; `pc` says which call is running and where
in it. `run_next_step()` is split where it matters: `FirstAttempt` / `NextAttempt` (count, snapshot),
`StepCompletes` / `StepStages` / `StepFails` (the work), `AttemptSucceeded` / `AttemptFailed` /
`AttemptTimedOut` (the time is checked after the work, whatever came out of it, and everything the
attempt did to the frame is restored). A timeout is a nondeterministic choice on steps that have a limit; a
condition may be true, false or fail; a tool may deliver data, an empty value or one of the failure
classes of `retry_policy.py`. Approvals, rejections and executions come in any order after the run.

**ApprovalStore** is a persisted frame and the processes of its operators. A command is loading and
checking (one step: the file is replaced atomically), executing action by action on the copy, then
`write_json_atomic()` in its three steps (fill the temporary file, move it, remove what is left) and the
summary and ledger. The name of the temporary file is shared. The CLI's `execute-approved`
and the UI's live execution are actions of their own, since they go around the orchestrator.

**EventIntake** is the two index files and the processes that take in and replay events. Each file is
read, then truncated (`open("w")`), then filled; in between it is in `torn` and cannot be parsed, also for ever
after a crash there, and possibly after two writers have overlapped. `index` and `queue` are the last complete
texts: of a torn file nothing is left, and no step reads its text again. `load_event_index()` raises on
such a file, `_update_queue_index()` takes it for empty; both are modelled. What else may raise is `Raises`: the routes
file, the manifests, a read or a write of either file, the run. Where it is caught is what matters: inside the try of `intake_event()`
(`InTry`) it ends in an index entry FAILED_EXECUTION that links no frame, even if the frame is linked by then; anywhere else it leaves the
command where it stands, a record RECEIVED included, and only a replay catches it. A frame is its event and
whether it has been run; the run itself is the business of Orchestrator.

**RecoveryAdvice** is `assess_recovery()` as an operator, rule by rule, on the frames of ApprovalStore: what
it says of the frame itself is computed, what it finds elsewhere (the manifest, the profile, the failure's
category, the step's retry policy) is a `Circumstance`.

**StoreCleanup** is the files of runs, reports, packs and temporary writes, each with its age as far as a policy can
tell, and the processes around them: a save of a frame with its two temporary files, a report, a cleanup that
first discovers candidates (reports frame by frame, then files, then packs) and then deletes them one by one,
and a backup that copies in the order of the directory walk. A file that has gone since it was listed is passed over
(`SkipFile`); one that goes between that look and the copy makes the backup raise, and what it has copied stays an
archive (`BackupRaises`). Days pass by themselves.

**PackPolicy** is the decisions about a tool pack as operators on given data: the entry that `enable_pack()` and
`disable_pack()` write, `evaluate_tool_governance()`, the profile's part, the lifecycle's governance and enablement
stages. **Governance** says when the data is read: commands read, empty and fill the file; a call reads it twice,
when it is staged and when it is executed; a lifecycle evaluation reads it three times. The environments a pack was enabled
for when a process imported the registry are frozen there, so the environment a call asks about is one of `GovernanceEnvironments`. `barred`
remembers what was disabled; only a command that enables a pack, or one that had read the file before somebody else changed that pack (`missed`),
lifts the ban.

**ManifestCatalog** is the manifest files (`disk`), what each says (an id, a body, whether it loads, and whether there are fields the
loader does not keep, `extras`), the
operations of the workbench and the wizard, and loads by the runtime. An operation's checks are one step, its
writes, second looks, removals and moves one each; between any two it may fail or crash. A load collects names and
then reads file by file. The wizard's temporary file has two steps of its own (empty, complete), because it
stands where the runtime looks; its name is drawn anew for every wizard, as `NamedTemporaryFile` does. Duplicate and rename write
what `_manifest_to_dict()` makes of the loaded manifest (`Converted`): the extras are gone, and a step without a command has
one that no longer loads.

**CustomerInbox** is the list of messages and its temporary file, the saved frames that draft the replies, and the
windows that work on both. Processing a message is: look at its status, mark it (load the list, fill the temporary file,
move it, remove what is left), create the frame, run it, look at it, update the message. A command on a frame is
load and check, save, and (from the UI's buttons only) look at the frame again and update the message. Approving all of a
frame's actions asks for no state (`ApproveAll`). Processing may raise before the frame is made (`CreateRaises`), in its run, which is saved
where it stands (`RunRaises`), and after the message has been updated (`ReportRaises`); each makes the message FAILED. The messages whose metadata name
a scenario that must fail (`guarded`) depend on which of the two seed lists, `SEED_MESSAGES` or the business
dataset's, has been written; `_apply_inbox_negative_guard()` calls their frames failed whatever they are. What a run makes of a
frame is one of `Outcomes` (Orchestrator has the run), what verification decides is the gate's `Verdict`, and
a save is one step (ApprovalStore has its steps).

`X_Faulty`, or `X_` and what goes wrong, next to a definition `X`, is a plausible bug in `X`. Nothing uses it: putting it in the place
of `X` makes a property fail, and `PROJECT.json` says which.

### Correspondence

| Model | Code |
| --- | --- |
| `state`, `status`, `attempts`, `output`, `action`, `current` | `frame.state`, `step.status`, `step.attempts`, `frame.outputs`, `pending_actions[*].status`, `frame.current_step_id` |
| `badValidation`, `frameError` | a failing record in `frame.validations`; a record in `frame.errors` that names no step |
| `snapshot` | the result of `_snapshot_attempt_state()` |
| `calls` | calls of the tool handler in live mode, per step (`Orchestrator`) or business effect (`ApprovalStore`); not stored anywhere in the program |
| `disk`, `temp`, `listed` | `taskframe.json`, `taskframe.json.tmp`, the state in `summary.json` and the ledger |
| `view` | what the operator's screen shows as approved |
| `index`, `queue`, `torn`, `ledger` | `event_index.json`, `event_queue_index.json`, those that are not valid JSON, the ids in `events.jsonl` |
| `op` | the processes: program counter and local variables |
| `taskframe`, `summary`, `age`, `pack`, `reports` | `taskframe.json`, `summary.json`, whether the other files exist and how old they are, the status in an approval pack, the directories `reports/` |
| `clean`, `backup`, `save`, `writer` | `ArtifactCleanupPlanner` / `ArtifactCleaner`, `_zip_path()`, `persist_frame_update()`, `generate_operator_run_report()` |
| `file`, `command`, `caller`, `evaluation` | `toolpack_governance.json`, `tools enable` / `disable`, the tool runner and health probes, `evaluate_toolpack_lifecycle()` |
| `disk`, `op`, `load` (ManifestCatalog) | `manifests/`, `config/manifests/`, `manifests/archive/`; a workbench operation; `load_manifest_by_id()` |
| `inbox`, `temp`, `frames`, `window` | `customer_messages.json`, its `.tmp`, every `taskframe.json`, the processes |
| `approved`, `called`, `was`, `behind`, `overtaken`, `barred`, `under`, `overlapped`, `overlaps`, `seen` | history: what was ever saved APPROVED, which actions were ever called live, and so on; what the properties compare with; not in the program |

`PROJECT.json` has the line range of every definition.

## 3. Runs

All state spaces are explored completely.

| Configuration | Instance | What it shows |
| --- | --- | --- |
| `MCOrchestrator` | three steps, up to three attempts, 225 manifests: nine shaped after shipped ones, 216 generated (every placing of tools, staged actions and input checks, every pending option) | rollback (`NoTraceOfFailedAttempts`), order (`StepsInOrder`), rest states, what COMPLETED means (`CompletedIsSettled`, `CompletedRanEveryStep`), `LiveEffectOnce`, `FinalIsFrozen`, termination (`CallsEnd`), the refinement of `ActionGate`, and the inductive invariant |
| `MCApprovalSerial` | one operator, two actions, three contracts, all interfaces, one crash | what one operator can rely on: statuses never go back and final states stay (`LifeCycle`), effects are repeated by crashes only, the listing agrees, and `assess_recovery()` never advises to resume or retry after a live call (`AdviceIsSafe`) |
| `MCApprovalConcurrent` | two operators, two actions, commands and CLI | what overlapping commands cannot break: only approved actions are called, COMPLETED on disk is true |
| `MCIntakeSerial` | one process, two events, three commands, one crash and one exception | a frame is orphaned, or an index unreadable, only by a crash or an exception (`OrphansByFaultsOnly`); a link goes only when an exception follows its entry (`LinkStays`); index and queue agree; records left in an intermediate status are paid for in the same way (`QueueSettled`); a replay leaves the original alone |
| `MCIntakeConcurrent` | two processes, one event and its replay, two commands, one crash and one exception | links are right and no frame is run twice, however the file operations overlap |
| `MCStoreCleanup` | one frame with two saves and a report, one cleanup (three policies) or backup and one crash, or a backup and a cleanup at once | protected evidence is deleted only from a frame saved meanwhile, saves lose a temporary file only after a crash; no archive has a summary ahead of its frame, whatever is deleted under the backup and wherever it raises (`ArchiveNotAhead`); the inductive invariant |
| `MCGovernance` | two packs, two commands, a caller, a lifecycle evaluation, two environments, one crash | a disabled pack is refused until it is enabled or a command that had read the file before brings it back (`DisabledIsRefused`, in the invariant), policies get lost by overlap or interruption only, READY means runnable |
| `MCManifestCatalog` | three ids, six names in two directories and one file in the third; two windows, three operations (two when they overlap), one load | ids stay unique and the catalog readable, other manifests runnable, loads honest; what the loader reads of a manifest leaves the disk by a save only, the rest of it also by the end of a rename (`NothingLost`); the inductive invariant |
| `MCCustomerInbox` | one message, guarded or not, two frames, two windows, and an overlap, a reset, a crash or an exception | what the inbox says was true (`InboxWasTrue`); window after window, one reply per message (`OneReplyWhenSerial`) and a message that says what its frame is, unless its last save came from elsewhere or an exception followed (`AgreesWithFrame`) |

The remaining three configurations check one sentence each of a document or test that the code does not
keep (section 6).

**Why these bounds.** Three steps are the least with a step before, at and after a staged one, and
two staged actions of one effect with a third beside them; a third attempt makes a rollback follow a
rollback. Two actions and two operators give every race on a frame; contracts see actions only
through "all", "some" and "none". One crash is enough for every hazard listed, because a process
starts afresh after it, and the properties that count crashes compare with `crashes`; the same holds of exceptions (`raised`, `MaxRaises`, `MaxAccidents`). Two events show
that one event's steps leave the other's entry alone; two concurrent processes on one event are the
smallest race for an index entry. One frame is enough for the cleanup, whose decision about a frame reads that
frame's files only (the theorems hold for any number); two saves let a state be overtaken by another, and a cleanup
or a backup alone meets all of them. A second one is looked at while a backup is at work, whose files a cleanup then takes away under it: with the policy that
deletes most, on a frame that nothing protects, without reports and crashes (constraint `TwoWithBackup`).
Calls and lifecycle evaluations only read the policies, so one of the two is looked at at a time (constraint
`OneReads`). Three operations on manifests give every sequence the properties name (archive, take the name, restore);
two suffice for an overlap, and the windows play the same part, so the second begins only while the first is at work
(constraint `OverlapOfTwo`). A wizard leaves at most one temporary file behind. In the inbox a second frame for one message is
what goes wrong, so two frames; `OneReplyWhenSerial` and `AgreesWithFrame` speak of behaviours without overlap, and what overlaps and
accidents do together is left to the proof of `InboxWasTrue` (constraint `OneTrouble`); resets, crashes and exceptions together, and
the updates of several messages and more frames, are left to the proofs of all three. `MaxReplays` bounds `attempt_count`, `MaxCommands` the deliveries and replays,
`MaxCalls` is the value at which the count of live calls saturates (three is above what the checked
properties compare with). Operators, workers and commands are interchangeable, so the runs with two of them use symmetry where
no liveness is checked.

**Deadlock.** A final frame without actions accepts no operation in `Orchestrator`, and no command in `ApprovalStore`
(a UI can always be refreshed, so the runs with the UI do check for deadlock); in `EventIntake` the commands are
bounded. In `StoreCleanup`, `Governance`, `ManifestCatalog` and `CustomerInbox` every process is bounded or may be idle for ever. The other runs therefore do not report deadlock; that a call of the orchestrator,
which loops, does not stop or go on for ever is what `CallsEnd` checks. The commands of the other modules are
straight lines of steps, of whose ending no property is made.

**Fairness.** A call, once begun, is a sequential Python program that nothing suspends: weak fairness of the
steps inside a call (`FairSpec`). Nothing is assumed of humans and sources: preparing a frame, approving and
executing are never forced. The other modules state safety only and assume no fairness.

## 4. Proofs

All proofs hold for every number of steps, attempts, actions, operators, workers, events, crashes, exceptions, and
every manifest of the declared shape. The assumptions are the named ones of the modules
(`OrchestratorAssumption`, `ApprovalStoreAssumption`, `EventIntakeAssumption`, `StoreCleanupAssumption`,
`PackPolicyAssumption`, `GovernanceAssumption`, `CatalogAssumption`, `CustomerInboxAssumption`). Of these, two say more than types:
`GovernanceAssumption` that a process is a caller or an evaluator, not both, and `CatalogAssumption` that every wizard draws
a temporary name of its own, which no manifest and no save has and no file has yet, and that the ids are unique to begin with.

Some theorems of `ApprovalProofs` and `IntakeProofs` have a hypothesis beside these: `OneOperator`, `OneWorker`, that
there is exactly one process. The code has no lock, so what they state is false of two processes (section 6 has
examples), and it is what one CLI, used alone, may rely on. The runs `MCApprovalSerial` and `MCIntakeSerial` are
instances of it. In `ManifestCatalog` and `CustomerInbox` the properties themselves except overlaps.

**`GateProofs`.** When the gate says COMPLETED: no failure, required actions executed, and (unless the contract
forbids waiting, lists actions to be pending and asks for a success state) nothing in flight. `SuccessNeeds`
says it of every success state, with all the contract's criteria. Both are cited as lemmas by the proofs of the state machines.

**`OrchestratorProofs`.** `NoTraceOfFailedAttempts` is not inductive: a rollback is right only if the snapshot was.
`IndInv` adds that during an attempt the snapshot equals the frame for every other step and is empty
for the step being attempted (`SnapshotIsFaithful`), what the attempt may have done to its own step
(`AttemptProgress`), and that an action with a live call is EXECUTED, or FAILED in a frame that has failed
(`LiveCalls`). From it follow type correctness, the rollback, one live call per effect (the
duplicate check looks at EXECUTED actions; `LiveCalls` says nothing else has been called on a frame
that can still execute), and `ImplementsActionGate`: the initial states and every step of `Orchestrator` map to
`ActionGate`, by the substitution in `Gate`.

Order and completion need the control of the loop as well. `StepsInOrder` follows from where the run is: the step being
attempted is the first that has not gone through, and nothing after it has begun (`RunIsOnStep`). `RestStates` needs which
frame states each place of the code can be in (`StateFitsCall`), since states are assigned in one place and returned from in another.
`CompletedIsSettled` and `CompletedRanEveryStep` speak of the gate's verdict, so they need that the gate is told: a rejected or
failed action has left an error, and under `continue_after_pending` the loop has left no step behind (`GateIsInformed`).
`FinalIsFrozen` follows from the same parts. With these, every safety property of `MCOrchestrator` is a theorem.

**`ApprovalProofs`.** With no lock nothing is known about whose save comes last, so the invariant speaks of *every copy* of
the frame, in a file or a process, in the same way: it is `Sound` (what is EXECUTED is logged;
COMPLETED means settled), no copy about to be saved is EXECUTING_PENDING, and what a process may call live, or a screen
shows as approved, was approved in `taskframe.json`. Overwriting one such copy with another
preserves that. Proved: type correctness, `CalledWasApproved`, `CompletedOnDisk`, `NeverMidExecution`.

For one operator there is a second invariant, `SerialInv`. An effect that has been called more often than there were crashes
is remembered: every copy in use is final or shows an action of that effect as executed (`Remembers`), which is what
the duplicate check reads. A copy about to be saved holds only statuses that follow from the ones on disk
(`StatusesFollow`) and is final if the disk is; and the listing shows the state on disk except between the move and
the report, or after a crash. Proved from it: `RepeatedByCrashesOnly`, `ListingAgrees`, `LifeCycle`, and `AdviceIsSafe`, for which the
invariant ties `called`, the actions called live, to what `assess_recovery()` can see of them.

**`IntakeProofs`.** The same idea: every copy of an index that a process has read, every record it is about to write and
its result link rightly (`Holds`), with respect to the store at any later time, because frames are only added
and keep their event. For `RunOnce` the invariant adds `OwnsFrame`: a process on its way to a run
holds a frame in state CREATED that no other process is on its way to. Proved: type
correctness, `LinksExist`, `RunOnce`.

For one worker, `SerialInv` says that the worker's copy of the event index is the file, which only the worker itself has
torn (`SerialIndex`); that what it is about to write to the queue agrees with the frame and with the event index, so that
the two links can differ only while it stands between the two writes (`SerialLinks`); that what ends a command settles its event (`SerialStatus`); and that the frames no index names, and the events in
an intermediate status, are at most as many as the crashes and exceptions, not
counting the frame it is about to name and the event it has still to settle, but counting the frame whose link it is about to take away
(`SerialCounts`). Proved from it: `OrphansByFaultsOnly`, `QueueAgrees`, `QueueSettled`, `LinkStays`,
`ReplayLeavesOriginal`. The counting uses the library's theorems about cardinalities.

**`StoreCleanupProofs`.** A cleanup's candidates were chosen from files that have changed since. The invariant says of each
kind what is still known of it (`CandidateShape`), that evidence on the list did not matter when its frame was last
saved unless the frame was overtaken (`CandidatesDoNotMatter`), that without crashes temporary files exist exactly
while they are in use (`TempsInUse`), and that summaries and archives lag behind (`SummaryBehind`, `ArchiveBehind`). The
last says why going past a deleted file does no harm: the cleanup deletes neither `taskframe.json` nor `summary.json`, and a frame that
is listed is still there when it is copied.
Proved: the properties of `MCStoreCleanup`, for every set of policies.

**`GovernanceProofs`.** `DisabledIsRefused` speaks of decisions taken from reads of different moments, so the invariant
follows the ban rather than the read: where a pack is barred the file does not allow it (`BarsHold`), whoever is under a
ban is about a barred pack (`UnderHolds`), a command about to write copies of the other packs what is in the file, unless it has missed
their change (`CopiesHold`), and an evaluation that was alone has seen the file (`AloneHolds`). Proved: with it
`DisabledIsRefused`, `ReadyIsRunnable` and `PolicyLostByOverlapOnly`, for every profile, tool and number of commands.

**`CatalogProofs`.** Unique ids are not inductive: a write keeps them only if what the operation saw when it looked
is still so. `ChecksHold` says for every step of every operation what it relies on: the id is free but for the
file to be written, the target is still empty, source and copy carry the same body, a wizard's file is empty, torn or
complete. It is kept because no other operation is under way (`OneAtATime`) until two have overlapped;
a crash or an error ends the operation and asks for nothing. That a copy carries the body and not the extras is part of it, and why
`NothingLost` has two cases. Proved: the invariant, `CatalogReadable`, `NothingLost`,
`StaysRunnable`.

A load reads file by file while all this goes on. `LoadInv` says what it can still find out: with the files as they were, what it has
found is what is there (`AsRead`); an id that has been active throughout is found already, or stands in a file that is still to be
read, or was published away from a temporary file whose absence will make the load fail (`InSight`, `Gone`). The last
case is sound only because no other wizard can put a file there again: with one temporary name for all wizards, as an
earlier version of the model had it, a load could miss a manifest that was active throughout. The attempt to prove it showed
this, and the model now draws the names as the code does. Proved: `LoadsAreHonest`.

**`InboxProofs`.** Whose list is written last is not known, so again the invariant speaks of every copy: the file, its temporary
file, the list every window is about to save, and the status it is about to write, say only what was true (`ListIsTrue`,
`Fit`). Truth is about the past (`was`), so it survives every later save of the frame, and it survives the
list being overwritten because the other list is true as well. A frame's own file stands behind it: what it says now is among
what it has been, and a frame that has succeeded was approved (`FrameIsTrue`). Proved: type correctness, `InboxWasTrue`.

`SerialInv` adds what is so until two windows overlap. A rejected or completed frame stays what it is (`Settled`). Every entry says what
its frame is, except for the frame that a window is working on and those whose last save came from elsewhere or was cut off by a
crash or an exception (`Stale`). A message that may be processed has no reply waiting (`ListIsFresh`), and a window that makes a frame has marked its
message first, so that none can come to wait in between (`MayMake`, `Marking`). A reset takes the entries away and the
waiting replies stay, and an exception makes a message FAILED, so that it may be processed again, while the reply of its frame waits: hence the condition
`Undisturbed` in the two parts about replies; the parts about statuses hold across resets, crashes and exceptions together, which the run keeps apart. Proved: `OneReplyWhenSerial`, `AgreesWithFrame`. This proof, too, corrected the model: two CASE
expressions had guards that overlapped, and TLC took the first arm where TLA+ leaves the choice open; now they exclude each other, in
the order of the code's `if` and `elif`.

The strengthenings that no run lists (the three `SerialInv` and `LoadInv`) were checked with TLC on the same instances before
they were proved; adding the name to the configuration's INVARIANTS repeats that.

**Only model-checked.** Liveness: `CallsEnd`, which rests on fairness
and so on ENABLED, out of the prover's reach. And the three disagreements of section 6, which are counterexamples. Every other property
of the runs is a theorem.

## 5. What the models leave out

* Texts, audit trails, evidence, timing records, retry delays, reports, and what tools compute.
* In `Orchestrator` and `ApprovalStore` the guards of a live execution other than state and duplicates (governance,
  arguments, allowlist, profile, guardrail) are one nondeterministic refusal (governance and profile have modules of
  their own); routing, validation and mapping of events are
  nondeterministic outcomes.
* File-system errors other than the ones named above. In `ApprovalStore` and `CustomerInbox` the write of the temporary file is one
  step (`WriteTemp`). The code opens a name that all processes share and dumps into it, so another process's `os.replace()` may publish the file half
  written; loads of it then fail until the writer has finished, or for ever if it crashes, and the writer's own `os.replace()` raises. The models leave
  this out: such a file is neither a frame nor a list, no command acts on one, and what the writer goes on to write
  into it is what the models have it write at once. `save_snapshot()` of a new or finished run is one step, since nobody else has the frame then.
* `event_queue.jsonl`, which is only appended to and read for listings; `seen_count` and the statuses in the
  event index; replays of replays, which get a further suffix.
* CANCELLED, EXPIRED and WAITING_FOR_INPUT are declared in `taskframe.py` and never assigned.
* One frame per model (`ApprovalStore`): nothing but the duplicate check's frame is read by a command, and that is the
  frame itself.
* In `StoreCleanup`: restore, store validation, what the artifact index says, and walks that see a directory while it changes
  (a listing is one step). In `Governance`: the other governance files, health beyond the probe, the reports. In
  `ManifestCatalog`: listing the catalog is one step of the workbench (the runtime reads file by file), `load_manifest()`
  is a property of the content, a file without an id is not in the instance, temporary names are never used twice, and
  the copy of the manifest the workbench keeps beside the frames it runs.
* In `CustomerInbox`: texts, times and the views that are returned; a frame of the message's manifest with one staged action; a
  message that is not in the list, and a list that is not JSON, which only the half-written temporary file above can be; resets by the business
  dataset, which write the same file in the same way.

### Not modelled

The map covers about nine per cent of the repository's lines. What is left is of five kinds, none of which a state
machine says anything about that its code does not say better:

* *views, reports and demos* (most of `operator_ui.py` and `taskframe_cli.py`, `run_report.py`,
  `operational_monitoring.py`, presenters, galleries, scorecards, evidence packs): functions from
  persisted files to text or widgets; they keep nothing and decide nothing;
* *domain tools* (`invoiceops_*`, supplier, order, message, shipment and payment tools, tool packs, `tools/`): sequential
  computations over fixtures, or calls of outside services; the runtime sees "returned" or "failed", which is how
  `Orchestrator` has them;
* *tables* (`tool_registry.py`, contracts, templates, scenario definitions): data without steps;
* *release and verification scripts* (`run_release_candidate_verification.py` and the like): they run commands
  one after the other and write a report;
* *pure parsers and rules* (`conditions.py`, `command_parser.py`, `arg_resolver.py`, `validation.py`,
  `manifest_contract_strict.py`): their outcomes are nondeterministic in `Orchestrator`; a translation of the string handling
  would be as long as the code, and no property of the system depends on more than the outcome.

The `bits` prototype shares no file and no process with the runtime.

Two remarks on contracts. One with `allow_pending_approval` false, a non-empty
`success_requires.pending_actions` and a success state as `required_state` lets a frame be COMPLETED with an action
in flight (`AsksForEarlySuccess`); this is what it asks for, so `CompletedIsSettled` excludes it, and
`ApprovalStoreAssumption` starts from contracts that wait. And the gate's rule for blocked live executions
matches error types that the tool runner does not record; the rule after it gives the same verdict.

## 6. Where code and documents disagree

A run shows the disagreement; `PROJECT.json` quotes the sentence with its place.

| Configuration | Sentence | What the run shows |
| --- | --- | --- |
| `MCPartialApproval` | a pending action means WAITING_FOR_EXECUTE | executing one of two staged actions moves to VERIFYING; the gate's verdict is then refused, and the other action can never be approved by a command |
| `MCCrashRepeats` | the idempotency key prevents duplicate side effects | a crash between the live call and the save repeats the call |
| `MCRestored` | a restored manifest appears in the active catalog | one of `config/manifests/` comes back under a name the runtime does not load |

Also met while modelling, and visible in the same models, without a run of their own:

* `tests/test_approval_commands.py:115` expects a rejection to block execution afterwards: a process that has loaded the
  frame before goes on to the call, and its save erases the rejection. `README.md:329` of the repository says the runtime
  is "not designed for high-concurrency production workloads"; one CLI beside one UI is enough for this.
* The UI executes and changes the copy on its screen; the saved action stays APPROVED
  (`docs/runtime_contracts.md:126`: execution changes the action's status).
* The RECEIVED record of a duplicate has erased the link to the original frame before the duplicate is noticed, and the record of the
  duplicate is made from it (`tests/test_event_queue.py:77` is called "duplicate event record links original frame" and looks at
  the flag `duplicate` only).
* A command about one pack that had read the policies before another one disabled a second pack writes the second pack's old entry back: it
  is allowed again, and nobody has enabled it (`docs/runtime_tool_governance.md:48`: "Optional packs must be explicitly enabled for
  the environment"). `PolicyLostByOverlapOnly` says that this takes an overlap, and `DisabledIsRefused` excepts it.
* A rename writes eleven keys of the manifest, `side_effect` always false, and removes the old file: `side_effect_policy`,
  `sample_inputs` and a step's own fields are gone (`docs/manifest_building_manual.md:354`: "The manifest file is renamed"). `NothingLost`
  says that no other operation but a save loses them.
* A redelivery resets `attempt_count`, so that the next replay takes the id of an earlier one, is answered
  DUPLICATE_EVENT and reported as done (`runtime/event_queue.py:277`: "creating a new TaskFrame").
* `validate_toolpack_descriptor()` drops `risk_class`, so a registered tool's class is only ever core or optional: a pack
  enabled as high_risk for demo is called in demo (`docs/runtime_tool_governance.md:50`: "High-risk and experimental packs
  are blocked in safe-release environments").
* While `toolpack_governance.json` is being rewritten, every pack is unknown, and dev may call a blocked one
  (`docs/runtime_tool_governance.md:49`); `DisabledIsRefused` excepts this.
* The lifecycle calls a pack READY that is listed but could not be registered (`toolpack_lifecycle.py:608`).
* A rename writes the new file and then removes the old one; when it stops in between both are active, under two ids
  (`docs/manifest_building_manual.md:354` goes on: "updated atomically"). Of what the loader reads, `NothingLost` is what does hold.
* Saving from the editor writes a manifest whose steps name kinds as one whose steps name commands without brackets, and
  reports success; the file no longer loads, so the runtime and every later operation refuse it (`Converted`).
  Duplicating or renaming such a manifest fails and undoes itself.
* One file that cannot be read, or an id that stands twice, stops every load by id, whichever manifest was asked for; a
  wizard that crashes while its temporary file is empty leaves such a file in `manifests/`.
* With `continue_after_pending` the retry of a step sets the frame to RUNNING although an action waits
  (`orchestrator.py:389`); it strands the action in the same way as a partial approval.
* Without `continue_after_pending` the steps behind a staged one never run, and the frame is COMPLETED once the
  action is executed (`docs/manifest_building_manual.md:211`: "Workflow finished successfully");
  `CompletedRanEveryStep` therefore speaks of the other frames.
* A failed required-inputs check is classified by its message and may be retried
  (`docs/recovery_and_idempotency.md:57`: "Why Validation Is Not Auto-Retried").
* The CLI's `execute-approved` executes the last action and leaves the frame WAITING_FOR_EXECUTE, since it
  never verifies it.
* A crash or an exception between the saved frame and the event index makes a redelivery create a second frame; that these are the
  only ways, for one process, is `OrphansByFaultsOnly`.
* A routes file that cannot be parsed ends a delivery with an exception and leaves its record RECEIVED.
* When the queue record cannot be written after the index has the link, the except branch of `intake_event()` takes the link away again
  (`linked_frame_id` None), and the frame is neither run nor known; `LinkStays` excepts this.
* An exception in the report that `process_customer_message()` puts together makes a message FAILED whose reply was just staged, so that it may be
  processed again; `OneReplyWhenSerial` excepts this.
* Two windows that process one message stage two replies, both of which can be sent (in spite of
  `tests/test_customer_inbox_processing.py:44`, which has one window); so can one window with a guarded message whose frame was staged,
  because the guard changes only the copy the status is taken from. `OneReplyWhenSerial` excepts both.
* `_sync_message_from_frame()` calls `.get` on `completion_gate_result`, which is None when the frame failed before the
  gate: the message is FAILED all the same, but its reason is "'NoneType' object has no attribute 'get'".
* An approved reply whose execution fails leaves its message APPROVED: `_sync_customer_inbox_from_frame()` knows
  FAILED_COMPLETION and no other failure. The CLI and the live execution do not update the inbox at all.
* A crash inside `save_event_index()` leaves a file that every later intake raises on; the queue index is
  silently taken for empty instead.

## 7. Plan

Done: 1. tables and gate; 2. orchestrator and its abstract gate; 3. approvals and persistence;
4. event intake; 5. recovery assessment; 6. retention, cleanup and backup; 7. tool pack policies; 8. the manifest
catalog; 9. the customer inbox; 10. proofs of every safety property the runs check.

What is left, in order:

1. An abstract index (event to frame, set once) and a proof that the `EventIntake` of a single worker implements it; the same
   for `ApprovalStore` and an abstract frame whose commands are single steps.
2. For several processes, what does hold of `LifeCycle` and `LinkStays`: which overlaps break them.
3. *Approval steps inside a manifest*: approval commands run as steps of another frame, composing
   `Orchestrator` and `ApprovalStore`.
4. *Restore and store validation* beside `StoreCleanup`, and the memory store as far as processes share it.
5. The ingest service of the `bits` prototype, a system of its own.
