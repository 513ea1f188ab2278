---------------------------- MODULE CustomerInbox ----------------------------
(***************************************************************************)
(* The customer inbox of the operator UI (runtime/customer_inbox.py): a     *)
(* list of messages in one JSON file, each with a status and a link to the  *)
(* TaskFrame that drafts its reply.  A message is processed                 *)
(* (operator_customer_inbox_runner.py) by running a frame to its end; its   *)
(* reply is approved, rejected and executed on the frame, after which the   *)
(* UI copies the frame's outcome to the message                             *)
(* (operator_approval_actions.py).                                          *)
(*                                                                         *)
(* Every update reads the whole list, changes one message and saves the     *)
(* whole list; nothing locks it.  A window is a process that runs one       *)
(* operation after the other, and may crash anywhere in one.                *)
(***************************************************************************)
EXTENDS Naturals, FiniteSets, CompletionGate

CONSTANTS
    Message,        \* the messages of the seed list
    Window,         \* operator UI processes; some may be the CLI
    MaxFrames,      \* bound on the frames that are created
    MaxAccidents,   \* bound on the resets of the inbox, the crashes and the exceptions
    MaxOverlaps     \* bound on the operations that begin during another one

ASSUME CustomerInboxAssumption ==
    /\ Message # {}
    /\ MaxFrames \in Nat /\ MaxAccidents \in Nat /\ MaxOverlaps \in Nat

FrameId == 1..MaxFrames

\* No frame: an empty linked_frame_id or frame_id.
Unlinked == 0

ALLOWED_STATUSES ==
    {"NEW", "PROCESSING", "STAGED_REPLY", "APPROVED", "EXECUTED_DRY_RUN", "REJECTED",
     "FAILED", "COMPLETED"}

Entry == [status : ALLOWED_STATUSES, link : FrameId \cup {Unlinked}]

Inbox == [Message -> Entry]

\* customer_messages.json is missing.
NoInbox == <<>>

SEED_MESSAGES == [x \in Message |-> [status |-> "NEW", link |-> Unlinked]]

\* The completion contract of customer_status_llm_e2e; its outputs and its one
\* action come from step 1.
Contract == [ allow_pending_approval |-> TRUE,
              success_outputs |-> {1}, acceptable_empty_outputs |-> {},
              success_pending_actions |-> {1}, success_executed_actions |-> {},
              required_state |-> "" ]

\* A saved frame: the message that triggered it, its state, the status of the
\* action that sends the reply, and whether its executed_actions has it.
SavedFrame == [ of : Message, state : TASKFRAME_STATES, action : ACTION_VALUES,
                executed : BOOLEAN ]

NoFrame == [missing |-> TRUE]

\* What run_until_blocked() makes of a frame of this manifest: the reply is
\* staged, with every validation passed or one failed, or a step fails before.
Outcomes == { [state |-> "WAITING_FOR_EXECUTE", action |-> "PENDING_APPROVAL"],
              [state |-> "FAILED_VALIDATION", action |-> "PENDING_APPROVAL"],
              [state |-> "FAILED_VALIDATION", action |-> "NONE"],
              [state |-> "FAILED_EXECUTION", action |-> "NONE"] }

VARIABLES
    inbox,      \* customer_messages.json
    temp,       \* its temporary file, the same name for every process
    frames,     \* taskframe.json of every frame
    window,     \* what every window is doing
    was,        \* what every frame has been on disk: approved, rejected, completed
    behind,     \* frames saved since a window has last looked at them for the inbox
    overlaps,   \* operations that have begun during another one
    resets, crashes,
    raised,     \* exceptions in the processing of a message, once its frame exists
    guarded     \* the messages whose metadata name a scenario that must fail

vars == <<inbox, temp, frames, window, was, behind, overlaps, resets, crashes, raised,
          guarded>>

\* A window: where it is and on behalf of which operation; its message and
\* frame; the frame it will save; the status and link it will write, the list it
\* will save, and where it goes on after that.
Process == [ pc : {"idle", "create", "run", "save", "sync", "load", "write", "replace",
                   "clean", "raise"},
             via : {"process", "failure", "approval", "other", "inbox"},
             msg : Message, frame : FrameId \cup {Unlinked}, held : SavedFrame,
             entry : Entry, list : Inbox, next : {"idle", "create"} ]

\* create_frame_from_manifest()
Created(m) == [of |-> m, state |-> "CREATED", action |-> "NONE", executed |-> FALSE]

SomeMessage == CHOOSE m \in Message : TRUE

Idle == [ pc |-> "idle", via |-> "inbox", msg |-> SomeMessage, frame |-> Unlinked,
          held |-> Created(SomeMessage), entry |-> SEED_MESSAGES[SomeMessage],
          list |-> SEED_MESSAGES, next |-> "idle" ]

Init == /\ inbox = NoInbox
        /\ temp = NoInbox
        /\ frames = [f \in FrameId |-> NoFrame]
        /\ window = [w \in Window |-> Idle]
        /\ was = [f \in FrameId |-> {}]
        /\ behind = {}
        /\ overlaps = 0
        /\ resets = 0
        /\ crashes = 0
        /\ raised = 0
        /\ guarded \in SUBSET Message

-----------------------------------------------------------------------------
(* Helpers *)

IsIdle(w) == window[w].pc = "idle"

\* The window begins an operation as p.
Begins(w, p) == /\ IsIdle(w)
                /\ window' = [window EXCEPT ![w] = p]
                /\ \/ /\ \A v \in Window : IsIdle(v)
                      /\ UNCHANGED overlaps
                   \/ /\ \E v \in Window : ~IsIdle(v)
                      /\ overlaps < MaxOverlaps
                      /\ overlaps' = overlaps + 1

\* The window goes on as p, and nothing else changes.
GoesOn(w, p) == /\ window' = [window EXCEPT ![w] = p]
                /\ UNCHANGED <<inbox, temp, frames, was, behind, overlaps, resets, crashes>>

\* behind is kept until operations overlap.
Behind(fs) == IF overlaps > 0 THEN behind ELSE fs

\* update_customer_message() begins, on behalf of p.
Updating(p, status, link, next) ==
    [p EXCEPT !.pc = "load", !.entry = [status |-> status, link |-> link], !.next = next]

\* The except branch of process_customer_message(): what it writes may fail too.
Failing(p, link) == Updating([p EXCEPT !.via = "failure"], "FAILED", link, "idle")

-----------------------------------------------------------------------------
(* The list: seed, reset, and the update of one message *)

Overwriting(w) == Begins(w, [Idle EXCEPT !.pc = "write"])

Seed(w) == /\ inbox = NoInbox
           /\ Overwriting(w)
           /\ UNCHANGED <<inbox, temp, frames, was, behind, resets, crashes>>

Reset(w) == /\ inbox # NoInbox /\ resets + crashes + raised < MaxAccidents
            /\ Overwriting(w)
            /\ resets' = resets + 1
            /\ UNCHANGED <<inbox, temp, frames, was, behind, crashes>>

\* The merge keeps the link of a message that is only marked PROCESSING.
Merged(list, p) ==
    [list EXCEPT ![p.msg] = IF p.entry.status = "PROCESSING"
                            THEN [@ EXCEPT !.status = "PROCESSING"] ELSE p.entry]

\* update_customer_message() reads the list; the file is never removed.
Load(w) == /\ window[w].pc = "load"
           /\ GoesOn(w, [window[w] EXCEPT !.pc = "write", !.list = Merged(inbox, window[w]),
                                          !.entry = Idle.entry])

\* write_json_atomic() fills the temporary file, in one step: that another window may
\* move it while it is half written is left out,
WriteTemp(w) ==
    /\ window[w].pc = "write"
    /\ temp' = window[w].list
    /\ window' = [window EXCEPT ![w].pc = "replace", ![w].list = SEED_MESSAGES]
    /\ UNCHANGED <<inbox, frames, was, behind, overlaps, resets, crashes>>

\* moves it over the inbox, which raises when another window has taken it,
Replace(w) ==
    /\ window[w].pc = "replace"
    /\ IF temp = NoInbox
       THEN /\ window' = [window EXCEPT ![w].pc = "raise"]
            /\ UNCHANGED <<inbox, temp>>
       ELSE /\ inbox' = temp
            /\ temp' = NoInbox
            /\ window' = [window EXCEPT ![w].pc = "clean"]
    /\ UNCHANGED <<frames, was, behind, overlaps, resets, crashes>>

AfterSave(p) == IF p.next = "create" THEN [p EXCEPT !.pc = "create", !.next = "idle"] ELSE Idle

\* Only process_customer_message() does something about a failed update.
AfterRaise(p) == IF p.via = "process" THEN Failing(p, p.frame) ELSE Idle

\* and removes a temporary file that is still, or again, there.
Clean(w) ==
    /\ window[w].pc \in {"clean", "raise"}
    /\ temp' = NoInbox
    /\ window' = [window EXCEPT ![w] = IF @.pc = "clean" THEN AfterSave(@) ELSE AfterRaise(@)]
    /\ UNCHANGED <<inbox, frames, was, behind, overlaps, resets, crashes>>

-----------------------------------------------------------------------------
(* process_customer_message() *)

Processable_Faulty == ALLOWED_STATUSES \ {"PROCESSING", "EXECUTED_DRY_RUN", "COMPLETED"}

Processable == {"NEW", "FAILED"}

\* The status is checked, and the message marked.
ProcessMessage(w, m) ==
    /\ inbox # NoInbox
    /\ inbox[m].status \in Processable
    /\ Begins(w, Updating([Idle EXCEPT !.via = "process", !.msg = m],
                          "PROCESSING", Unlinked, "create"))
    /\ UNCHANGED <<inbox, temp, frames, was, behind, resets, crashes>>

\* handle_event() creates the frame and saves it,
Create(w) ==
    /\ window[w].pc = "create"
    /\ \E f \in FrameId :
         /\ frames[f] = NoFrame
         /\ \A g \in FrameId : g < f => frames[g] # NoFrame
         /\ frames' = [frames EXCEPT ![f] = Created(window[w].msg)]
         /\ window' = [window EXCEPT ![w].pc = "run", ![w].frame = f]
    /\ UNCHANGED <<inbox, temp, was, behind, overlaps, resets, crashes>>

\* unless the model's adapter, the route, the manifest or the save makes it raise.
CreateRaises(w) ==
    /\ window[w].pc = "create"
    /\ GoesOn(w, Failing(window[w], Unlinked))

\* It runs the frame and saves it again.
Run(w) ==
    /\ window[w].pc = "run"
    /\ \E o \in Outcomes :
         frames' = [frames EXCEPT ![window[w].frame] =
                        [@ EXCEPT !.state = o.state, !.action = o.action]]
    /\ window' = [window EXCEPT ![w].pc = "sync"]
    /\ UNCHANGED <<inbox, temp, was, behind, overlaps, resets, crashes>>

\* Where a run that raises may leave the frame; it is saved all the same.
Interrupted == {"CREATED", "VALIDATING", "READY", "RUNNING", "VERIFYING"} \X
               {"NONE", "PENDING_APPROVAL"}

Accident == /\ resets + crashes + raised < MaxAccidents
            /\ raised' = raised + 1

\* handle_event() raises in the run, or when it saves what the run has made of the
\* frame: its caller is not told of the frame.
RunRaises(w) ==
    /\ window[w].pc = "run"
    /\ Accident
    /\ \E st \in Interrupted \cup {<<o.state, o.action>> : o \in Outcomes} :
         frames' = [frames EXCEPT ![window[w].frame] = [@ EXCEPT !.state = st[1], !.action = st[2]]]
    /\ window' = [window EXCEPT ![w] = Failing(@, Unlinked)]
    /\ UNCHANGED <<inbox, temp, was, behind, overlaps, resets, crashes>>

\* The message has its status, and what is then put together for the screen raises.
ReportRaises(w) ==
    /\ window[w].pc = "clean" /\ window[w].via = "process" /\ window[w].next = "idle"
    /\ Accident
    /\ temp' = NoInbox
    /\ window' = [window EXCEPT ![w] = Failing(@, @.frame)]
    /\ behind' = Behind(behind \cup ({window[w].frame} \ {Unlinked}))
    /\ UNCHANGED <<inbox, frames, was, overlaps, resets, crashes>>

-----------------------------------------------------------------------------
(* Commands on the frame: load, check, change the copy, save *)

Waiting(f) == frames[f] # NoFrame /\ frames[f].state = "WAITING_FOR_EXECUTE"

Commanded(f, via) == [ Idle EXCEPT !.via = via, !.msg = frames[f].of, !.frame = f ]

\* The frame's command is to save g; the UI's buttons look at the inbox after
\* it, other ways to the same command do not.
Saves(w, f, g) ==
    /\ \E via \in {"approval", "other"} :
         Begins(w, [Commanded(f, via) EXCEPT !.pc = "save", !.held = g])
    /\ UNCHANGED <<inbox, temp, frames, was, behind, resets, crashes>>

Approve(w, f) == /\ Waiting(f)
                 /\ frames[f].action = "PENDING_APPROVAL"
                 /\ Saves(w, f, [frames[f] EXCEPT !.action = "APPROVED"])

ApprovedAll(g) == [g EXCEPT !.action = IF @ = "PENDING_APPROVAL" THEN "APPROVED" ELSE @]

\* approve_all_pending_actions_command() asks for no state, and saves the frame when
\* there was nothing to approve as well.
ApproveAll(w, f) ==
    /\ frames[f] # NoFrame
    /\ Begins(w, [Commanded(f, "other") EXCEPT !.pc = "save", !.held = ApprovedAll(frames[f])])
    /\ UNCHANGED <<inbox, temp, frames, was, behind, resets, crashes>>

Reject(w, f) == /\ Waiting(f)
                /\ frames[f].action = "PENDING_APPROVAL"
                /\ Saves(w, f, [frames[f] EXCEPT !.action = "REJECTED",
                                                 !.state = "FAILED_COMPLETION"])

\* verify_frame() after a dry run, when a validation fails (bad) or none does.
Verdict(g, bad) ==
    EvaluateCompletion(Contract, [ status |-> <<"STAGED">>, output |-> <<"value">>,
                                   action |-> <<g.action>>, badValidation |-> bad,
                                   frameError |-> FALSE ])

\* How execute_approved_pending_actions() may leave the frame it saves: the
\* action is refused, for a duplicate or otherwise; the tool reports an error;
\* the frame is verified.
Executed(g) ==
    {[g EXCEPT !.action = "FAILED", !.state = "FAILED_EXECUTION"]} \cup
    IF g.executed THEN {} ELSE
    LET done == [g EXCEPT !.action = "EXECUTED", !.executed = TRUE] IN
    {[done EXCEPT !.state = "FAILED_EXECUTION"]} \cup
    {[done EXCEPT !.state = Verdict(done, bad)] : bad \in BOOLEAN}

Execute(w, f) == /\ Waiting(f)
                 /\ frames[f].action = "APPROVED"
                 /\ \E g \in Executed(frames[f]) : Saves(w, f, g)

\* How the CLI's execute-approved, and the UI's live execution, may leave it:
\* neither verifies the frame, the UI's runner changes a copy of the action, and
\* a dry run that is refused leaves the state.
ExecutedAlone(g) ==
    {[g EXCEPT !.action = "FAILED"]} \cup
    IF g.state # "WAITING_FOR_EXECUTE" THEN {} ELSE
    {[g EXCEPT !.action = a, !.state = "FAILED_EXECUTION"] : a \in {"APPROVED", "FAILED"}} \cup
    IF g.executed THEN {} ELSE
    {[g EXCEPT !.action = a, !.executed = TRUE] : a \in {"APPROVED", "EXECUTED"}}

ExecuteAlone(w, f) ==
    /\ frames[f] # NoFrame
    /\ frames[f].action = "APPROVED"
    /\ \E g \in ExecutedAlone(frames[f]) :
         Begins(w, [Commanded(f, "other") EXCEPT !.pc = "save", !.held = g])
    /\ UNCHANGED <<inbox, temp, frames, was, behind, resets, crashes>>

\* A command that is refused, or raises before it saves, changes nothing; the UI
\* looks at the inbox nevertheless.
Refused(w, f) ==
    /\ frames[f] # NoFrame
    /\ Begins(w, [Commanded(f, "approval") EXCEPT !.pc = "sync"])
    /\ UNCHANGED <<inbox, temp, frames, was, behind, resets, crashes>>

\* What a saved frame is remembered for.
Facts(g) == {x \in {"approved", "rejected", "completed"} :
                CASE x = "approved"  -> g.action = "APPROVED"
                  [] x = "rejected"  -> g.action = "REJECTED"
                  [] x = "completed" -> g.state \in SuccessStates}

\* persist_frame_update(); ApprovalStore has its steps.  Of two windows that save
\* the frame at the same time, one may lose its save.
Save(w) ==
    /\ window[w].pc = "save"
    /\ LET p == window[w]
           f == p.frame
       IN /\ \/ /\ frames' = [frames EXCEPT ![f] = p.held]
                /\ was' = [was EXCEPT ![f] = @ \cup Facts(p.held)]
             \/ /\ \E v \in Window \ {w} : window[v].pc = "save" /\ window[v].frame = f
                /\ UNCHANGED <<frames, was>>
          /\ IF p.via = "approval"
             THEN /\ window' = [window EXCEPT ![w].pc = "sync", ![w].held = Idle.held]
                  /\ UNCHANGED behind
             ELSE /\ window' = [window EXCEPT ![w] = Idle]
                  /\ behind' = Behind(behind \cup {f})
    /\ UNCHANGED <<inbox, temp, overlaps, resets, crashes>>

-----------------------------------------------------------------------------
(* The frame's outcome is copied to the message *)

\* _sync_message_from_frame().  A frame that failed before the gate has no gate
\* result, on which the code raises: the except branch then writes the same.
ProcessedStatus(g) == CASE g.state = "WAITING_FOR_EXECUTE" -> {"STAGED_REPLY"}
                        [] g.state \in SuccessStates       -> {"COMPLETED"}
                        [] OTHER                           -> {"FAILED"}

ApprovalStatus_Faulty(g) ==
    CASE g.state = "WAITING_FOR_EXECUTE" -> {"STAGED_REPLY"}
      [] g.state \in SuccessStates       -> {"EXECUTED_DRY_RUN"}
      [] g.state = "FAILED_COMPLETION"   -> {IF g.action = "REJECTED" THEN "REJECTED"
                                                                      ELSE "FAILED"}
      [] OTHER                           -> {}

ApprovalStatus_Executed(g) ==
    CASE g.state = "WAITING_FOR_EXECUTE" -> {IF g.action = "APPROVED" THEN "APPROVED"
                                                                      ELSE "STAGED_REPLY"}
      [] /\ g.action = "EXECUTED"
         /\ g.state # "WAITING_FOR_EXECUTE" -> {"EXECUTED_DRY_RUN"}
      [] g.state = "FAILED_COMPLETION"   -> {IF g.action = "REJECTED" THEN "REJECTED"
                                                                      ELSE "FAILED"}
      [] OTHER                           -> {}

\* _sync_customer_inbox_from_frame(): other states are not copied.
ApprovalStatus(g) ==
    CASE g.state = "WAITING_FOR_EXECUTE" -> {IF g.action = "APPROVED" THEN "APPROVED"
                                                                      ELSE "STAGED_REPLY"}
      [] g.state \in SuccessStates       -> {"EXECUTED_DRY_RUN"}
      [] g.state = "FAILED_COMPLETION"   -> {IF g.action = "REJECTED" THEN "REJECTED"
                                                                      ELSE "FAILED"}
      [] OTHER                           -> {}

\* _apply_inbox_negative_guard() calls a frame of such a message failed, in the
\* copy that the message is given its status from.
StatusToWrite(via, g) == IF via # "process" THEN ApprovalStatus(g)
                         ELSE IF g.of \in guarded THEN {"FAILED"}
                         ELSE ProcessedStatus(g)

\* The frame is loaded and looked at; the update of the message comes later.
Sync(w) ==
    /\ window[w].pc = "sync"
    /\ LET p == window[w]
           found == StatusToWrite(p.via, frames[p.frame])
       IN /\ window' = [window EXCEPT ![w] =
                IF found = {} THEN Idle
                ELSE Updating(p, CHOOSE s \in found : TRUE, p.frame, "idle")]
          /\ behind' = Behind(behind \ {p.frame})
    /\ UNCHANGED <<inbox, temp, frames, was, overlaps, resets, crashes>>

-----------------------------------------------------------------------------

\* A window that dies may leave its temporary file and a frame it has changed.
Crash(w) ==
    /\ ~IsIdle(w)
    /\ resets + crashes + raised < MaxAccidents
    /\ crashes' = crashes + 1
    /\ window' = [window EXCEPT ![w] = Idle]
    /\ behind' = Behind(behind \cup ({window[w].frame} \ {Unlinked}))
    /\ UNCHANGED <<inbox, temp, frames, was, overlaps, resets>>

Operation(w) == \/ Seed(w) \/ Reset(w)
                \/ \E m \in Message : ProcessMessage(w, m)
                \/ \E f \in FrameId : \/ Approve(w, f) \/ ApproveAll(w, f) \/ Reject(w, f)
                                      \/ Execute(w, f) \/ ExecuteAlone(w, f) \/ Refused(w, f)

Progress(w) == \/ Load(w) \/ WriteTemp(w) \/ Replace(w) \/ Clean(w)
               \/ Create(w) \/ CreateRaises(w) \/ Run(w) \/ Save(w) \/ Sync(w)

Next == /\ \/ (\E w \in Window : Operation(w) \/ Progress(w) \/ Crash(w)) /\ UNCHANGED raised
           \/ \E w \in Window : RunRaises(w) \/ ReportRaises(w)
        /\ UNCHANGED guarded

Spec == Init /\ [][Next]_vars

-----------------------------------------------------------------------------
(* Properties *)

TypeOK ==
    /\ inbox \in Inbox \cup {NoInbox}
    /\ temp \in Inbox \cup {NoInbox}
    /\ frames \in [FrameId -> SavedFrame \cup {NoFrame}]
    /\ window \in [Window -> Process]
    /\ was \in [FrameId -> SUBSET {"approved", "rejected", "completed"}]
    /\ behind \subseteq FrameId
    /\ overlaps \in 0..MaxOverlaps
    /\ resets \in 0..MaxAccidents
    /\ crashes \in 0..MaxAccidents
    /\ raised \in 0..MaxAccidents
    /\ guarded \subseteq Message

\* In the frames fs, frame f was made for message m.
MadeFor(fs, f, m) == fs[f] # NoFrame /\ fs[f].of = m

\* What an entry of the list says of its frame was so in the frame's file at
\* some time (ws): it names a frame of its own message; APPROVED and
\* EXECUTED_DRY_RUN are said only of a reply somebody approved, the latter only
\* of a completed frame, and REJECTED only of a rejected reply.
True(fs, ws, m, e) ==
    /\ e.link # Unlinked => MadeFor(fs, e.link, m)
    /\ e.status \in {"STAGED_REPLY", "APPROVED", "EXECUTED_DRY_RUN", "REJECTED"} =>
           e.link # Unlinked
    /\ e.status \in {"APPROVED", "EXECUTED_DRY_RUN"} => "approved" \in ws[e.link]
    /\ e.status = "EXECUTED_DRY_RUN" => "completed" \in ws[e.link]
    /\ e.status = "REJECTED" => "rejected" \in ws[e.link]

ListIsTrue(fs, ws, list) == \A m \in Message : True(fs, ws, m, list[m])

\* However windows write their lists over each other's, and wherever they die,
\* what the inbox says was true.
InboxWasTrue == inbox # NoInbox => ListIsTrue(frames, was, inbox)

InFlightFor(m) == {f \in FrameId : /\ MadeFor(frames, f, m)
                                   /\ frames[f].state = "WAITING_FOR_EXECUTE"
                                   /\ frames[f].action \in InFlight}

\* Nothing has made a message processable whose frame may wait for approval.
Undisturbed == resets = 0 /\ raised = 0

\* While windows work one after the other, nobody resets the inbox and no exception
\* hides or contradicts a frame, no message has two replies that can still be sent,
\* wherever the windows die: it is processed again only after a frame that can be
\* approved no more.  (A guarded one has: it is FAILED at once, while the reply its
\* frame may have staged waits.)
OneReplyWhenSerial ==
    (overlaps = 0 /\ Undisturbed) =>
        \A m \in Message \ guarded : Cardinality(InFlightFor(m)) <= 1

\* What the message says of frame g when every window is idle.
StatusesFor(g) ==
    CASE g.state = "WAITING_FOR_EXECUTE" /\ g.action = "APPROVED" -> {"APPROVED"}
      [] g.state = "WAITING_FOR_EXECUTE" /\ g.action # "APPROVED" -> {"STAGED_REPLY"}
      [] g.state = "COMPLETED" -> {"EXECUTED_DRY_RUN"}
      [] g.state = "FAILED_COMPLETION" -> {"REJECTED"}
      [] OTHER -> {"FAILED", "STAGED_REPLY", "APPROVED"}

\* While windows work one after the other, a message says at rest what its frame
\* is, unless the frame was last saved by somebody who does not look at the
\* inbox, or an exception followed the message's update; and only a crash leaves
\* a message PROCESSING.
AgreesWithFrame ==
    (overlaps = 0 /\ inbox # NoInbox /\ \A w \in Window : IsIdle(w)) =>
        \A m \in Message \ guarded :
            LET e == inbox[m] IN
            IF e.status = "PROCESSING" THEN crashes > 0
            ELSE e.link \in FrameId \ behind => e.status \in StatusesFor(frames[e.link])

-----------------------------------------------------------------------------
(* The inductive invariant behind InboxWasTrue *)

\* A frame that has succeeded was approved.
FrameIsTrue(ws, f, g) == g.state \in SuccessStates => "approved" \in ws[f]

\* What a window holds is about its own message and was true.
Fit(fs, ws, p) ==
    /\ p.frame # Unlinked => MadeFor(fs, p.frame, p.msg)
    /\ p.pc \in {"run", "save", "sync"} => p.frame # Unlinked
    /\ p.pc = "save" => p.held.of = p.msg /\ FrameIsTrue(ws, p.frame, p.held)
    /\ True(fs, ws, p.msg, p.entry)
    /\ ListIsTrue(fs, ws, p.list)
    /\ p.pc \in {"create", "run", "save", "sync", "load"} \/ p.next = "create" => p.via # "inbox"

\* Nothing is done about messages before there are any.
SeededFirst ==
    inbox = NoInbox => /\ \A f \in FrameId : frames[f] = NoFrame
                       /\ \A w \in Window : window[w].via = "inbox"

\* Every list, in a file or in a window, and whatever else a window holds, was true.
IndInv ==
    /\ TypeOK
    /\ InboxWasTrue
    /\ temp # NoInbox => ListIsTrue(frames, was, temp)
    /\ \A f \in FrameId : frames[f] # NoFrame =>
           FrameIsTrue(was, f, frames[f]) /\ Facts(frames[f]) \subseteq was[f]
    /\ \A w \in Window : Fit(frames, was, window[w])
    /\ SeededFirst

-----------------------------------------------------------------------------
(* The inductive invariant of windows that work one after the other, behind  *)
(* OneReplyWhenSerial and AgreesWithFrame                                    *)

WaitsFor(m) ==
    {f \in FrameId : MadeFor(frames, f, m) /\ frames[f].state = "WAITING_FOR_EXECUTE"}

\* A frame whose reply was rejected, or that has completed, stays as it is.
Settled(g, facts) ==
    /\ g.state = "FAILED_COMPLETION" <=> g.action = "REJECTED"
    /\ g.state \in SuccessStates => g.state = "COMPLETED"
    /\ "completed" \in facts => g.state = "COMPLETED"
    /\ "rejected" \in facts => g.state = "FAILED_COMPLETION"

\* An entry says what its frame is, unless the frame is one of these.
Says(e, stale) ==
    /\ e.status # "COMPLETED"
    /\ e.status = "NEW" => e.link = Unlinked
    /\ e.status # "PROCESSING" /\ e.link \in FrameId \ stale =>
           e.status \in StatusesFor(frames[e.link])

ListSays(list, stale) == \A m \in Message \ guarded : Says(list[m], stale)

\* A message that may be processed has no reply waiting.
ListIsFresh(list) ==
    Undisturbed => \A m \in Message \ guarded :
                      list[m].status \in Processable => WaitsFor(m) = {}

\* The list that p is about to make the inbox.
ListFits(list, p) ==
    /\ ListSays(list, behind)
    /\ ListIsFresh(list)
    /\ crashes = 0 => \A m \in Message : list[m].status = "PROCESSING" =>
                                             m = p.msg /\ p.next = "create"
    /\ p.next = "create" => list[p.msg].status = "PROCESSING"

\* No other frame of its message waits while it makes one, nor when it says
\* that the message may be processed again.
MayMake(p) ==
    (Undisturbed /\ p.msg \notin guarded) =>
        /\ p.pc \in {"create", "run"} \/ p.next = "create" => WaitsFor(p.msg) = {}
        /\ p.pc = "sync" /\ p.via = "process" => WaitsFor(p.msg) \subseteq {p.frame}
        /\ p.pc = "load" /\ p.entry.status \in Processable => WaitsFor(p.msg) = {}

\* What a window that works alone has found, and still relies on.
AloneFit(p) ==
    /\ p.pc # "raise"
    /\ p.next = "create" => p.via = "process" /\ p.pc \in {"load", "write", "replace", "clean"}
    /\ p.pc \in {"create", "run"} => p.via = "process"
    /\ p.pc \in {"create", "run"} \/ (p.pc = "clean" /\ p.next = "create") =>
           inbox[p.msg].status = "PROCESSING"
    /\ p.pc = "run" => frames[p.frame].state = "CREATED"
    /\ p.pc = "save" => /\ p.via \in {"approval", "other"}
                        /\ Settled(p.held, was[p.frame])
                        /\ p.held.state = "WAITING_FOR_EXECUTE" =>
                               frames[p.frame].state = "WAITING_FOR_EXECUTE"
    /\ p.pc = "sync" => p.via \in {"process", "approval"}
    /\ p.pc = "sync" /\ p.via = "process" =>
           \E o \in Outcomes : frames[p.frame].state = o.state /\ frames[p.frame].action = o.action
    /\ p.pc = "load" => /\ p.entry.status = "PROCESSING" <=> p.next = "create"
                        /\ p.msg \notin guarded => Says(p.entry, behind)
    /\ p.pc = "write" => ListFits(p.list, p)
    /\ p.pc = "replace" => temp # NoInbox /\ ListFits(temp, p)
    /\ MayMake(p)

\* The frames the inbox may not say the truth of.
Stale == behind \cup {window[w].frame : w \in
             {v \in Window : window[v].pc \in {"run", "sync", "load", "write", "replace"}}}

Marking(p, m) ==
    /\ p.pc # "idle" /\ p.msg = m /\ p.via \in {"process", "failure"}
    /\ p.pc = "clean" => p.next = "create"

Serial ==
    /\ \A v, w \in Window : IsIdle(v) \/ IsIdle(w) \/ v = w
    /\ \A f \in FrameId : IF frames[f] = NoFrame THEN was[f] = {}
                                                 ELSE Settled(frames[f], was[f])
    /\ \A w \in Window : AloneFit(window[w])
    /\ inbox # NoInbox =>
           /\ ListSays(inbox, Stale)
           /\ ListIsFresh(inbox)
           /\ crashes = 0 => \A m \in Message : inbox[m].status = "PROCESSING" =>
                                 \E w \in Window : Marking(window[w], m)
    /\ Undisturbed => \A m \in Message \ guarded : \A f, g \in WaitsFor(m) : f = g

SerialInv == overlaps = 0 => Serial

=============================================================================
