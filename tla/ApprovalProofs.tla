--------------------------- MODULE ApprovalProofs ---------------------------
(***************************************************************************)
(* Proofs about ApprovalStore, for every number of operators, of staged     *)
(* actions and of crashes: what overlapping commands cannot break although  *)
(* nothing locks the frame.                                                 *)
(***************************************************************************)
EXTENDS RecoveryAdvice, GateProofs

(***************************************************************************)
(* Facts about the helpers.                                                 *)
(***************************************************************************)

\* A file is a frame, or is not there.
LEMMA FrameIsThere ==
    ASSUME temp \in Frame \cup {NoFrame}, temp # NoFrame
    PROVE  temp \in Frame
OBVIOUS

\* The frame as it is staged is sound and waits.
LEMMA StagedIsSavable == Staged \in Frame /\ Savable(Staged) /\ ActionsWith(Staged, "APPROVED") = {}
<1>1. Staged \in Frame
  BY DEF Staged, Frame, TASKFRAME_STATES, PENDING_ACTION_STATUSES
<1>2. ActionsWith(Staged, "EXECUTED") = {} /\ ActionsWith(Staged, "APPROVED") = {}
  BY DEF Staged, ActionsWith
<1>3. Savable(Staged)
  BY <1>2 DEF Savable, Sound, Staged
<1> QED
  BY <1>1, <1>2, <1>3

\* A process at rest.
LEMMA IdleIsFit == IdleProcess \in Process /\ Fit(IdleProcess)
<1>1. IdleProcess \in Process
  BY StagedIsSavable DEF IdleProcess, Process
<1>2. Fit(IdleProcess)
  BY StagedIsSavable DEF IdleProcess, Fit
<1> QED
  BY <1>1, <1>2

\* A process that is about to save a frame.
LEMMA SavingIsFit ==
    ASSUME NEW f \in Frame, Savable(f),
           NEW next \in {"idle", "execute", "again", "show", "raise"}
    PROVE  Saving(f, next) \in Process /\ Fit(Saving(f, next))
<1>1. IdleProcess \in Process /\ ~IdleProcess.live
  BY IdleIsFit DEF IdleProcess
<1>2. Saving(f, next) \in Process
  BY <1>1 DEF Saving, Process
<1>3. /\ Saving(f, next).pc = "write"
      /\ Saving(f, next).frame = f
      /\ ~Saving(f, next).live
  BY <1>1 DEF Saving, Process
<1>4. Fit(Saving(f, next))
  BY <1>3 DEF Fit
<1> QED
  BY <1>2, <1>4

\* A process that begins to execute the approved actions of a frame.
LEMMA ExecutingIsFit ==
    ASSUME NEW f \in Frame, Sound(f), NEW live \in BOOLEAN,
           live => ActionsWith(f, "APPROVED") \subseteq approved
    PROVE  Executing(f, live) \in Process /\ Fit(Executing(f, live))
<1> DEFINE g == [f EXCEPT !.state = "EXECUTING_PENDING"]
<1>1. g \in Frame
  BY DEF Frame, TASKFRAME_STATES
<1>2. Sound(g)
  BY DEF Sound, ActionsWith, Frame
<1>3. ToExecute(f) \subseteq Action /\ ToExecute(f) = ActionsWith(f, "APPROVED")
  BY DEF ToExecute, ActionsWith
<1>4. IdleProcess \in Process /\ IdleProcess.via = "command"
  BY IdleIsFit DEF IdleProcess
<1>5. Executing(f, live) \in Process
  BY <1>1, <1>3, <1>4 DEF Executing, Process
<1>6. /\ Executing(f, live).pc = "execute"
      /\ Executing(f, live).frame = g
      /\ Executing(f, live).live = live
      /\ Executing(f, live).todo = ToExecute(f)
      /\ Executing(f, live).via = "command"
  BY <1>4 DEF Executing, Process
<1>7. g.state = "EXECUTING_PENDING"
  BY DEF Frame
<1>8. Executed(Executing(f, live))
  BY <1>2, <1>6, <1>7 DEF Executed
<1>9. Fit(Executing(f, live))
  BY <1>3, <1>6, <1>8 DEF Fit
<1> QED
  BY <1>5, <1>9

\* A copy whose status of one action is overwritten.
LEMMA WithFrame ==
    ASSUME NEW f \in Frame, NEW a \in Action, NEW st \in PENDING_ACTION_STATUSES
    PROVE  LET g == With(f, a, st) IN
             /\ g \in Frame
             /\ g.state = f.state /\ g.executed = f.executed /\ g.error = f.error
             /\ st # "EXECUTED" => ActionsWith(g, "EXECUTED") \subseteq ActionsWith(f, "EXECUTED")
             /\ ActionsWith(g, "EXECUTED") \subseteq ActionsWith(f, "EXECUTED") \cup {a}
<1> DEFINE g == With(f, a, st)
<1>1. /\ g \in Frame
      /\ g.state = f.state /\ g.executed = f.executed /\ g.error = f.error
      /\ \A b \in Action : g.action[b] = IF b = a THEN st ELSE f.action[b]
  BY DEF With, Frame
<1> QED
  BY <1>1 DEF ActionsWith

\* A copy that is not COMPLETED is sound when its executed actions are recorded.
LEMMA RecordedIsSound ==
    ASSUME NEW f, f.state # "COMPLETED", ActionsWith(f, "EXECUTED") \subseteq f.executed
    PROVE  Sound(f)
BY DEF Sound

\* A copy whose state is overwritten by one that is not COMPLETED.
LEMMA StateFrame ==
    ASSUME NEW f \in Frame, ActionsWith(f, "EXECUTED") \subseteq f.executed,
           NEW st \in TASKFRAME_STATES
    PROVE  LET g == [f EXCEPT !.state = st] IN
             /\ g \in Frame /\ g.state = st /\ g.error = f.error
             /\ g.action = f.action /\ g.executed = f.executed
             /\ st # "COMPLETED" => Sound(g)
<1> DEFINE g == [f EXCEPT !.state = st]
<1>1. /\ g \in Frame /\ g.state = st /\ g.error = f.error
      /\ g.action = f.action /\ g.executed = f.executed
  BY DEF Frame
<1>2. ActionsWith(g, "EXECUTED") = ActionsWith(f, "EXECUTED")
  BY <1>1 DEF ActionsWith
<1>3. st # "COMPLETED" => Sound(g)
  BY <1>1, <1>2, RecordedIsSound
<1> QED
  BY <1>1, <1>3

\* Approving whatever is still pending changes nothing on a COMPLETED frame.
LEMMA ApprovedAllFrame ==
    ASSUME NEW f \in Frame, Savable(f)
    PROVE  ApprovedAll(f) \in Frame /\ Savable(ApprovedAll(f))
<1> DEFINE g == ApprovedAll(f)
<1>1. /\ g \in Frame
      /\ g.state = f.state /\ g.executed = f.executed /\ g.error = f.error
      /\ \A a \in Action : g.action[a] = IF f.action[a] = "PENDING_APPROVAL"
                                         THEN "APPROVED" ELSE f.action[a]
  BY DEF ApprovedAll, Frame, PENDING_ACTION_STATUSES
<1>2. ActionsWith(g, "EXECUTED") = ActionsWith(f, "EXECUTED")
  BY <1>1 DEF ActionsWith
<1>3. (\A a \in Action : f.action[a] \notin InFlight) => \A a \in Action : g.action[a] = f.action[a]
  BY <1>1 DEF InFlight
<1>4. Sound(g)
  BY <1>1, <1>2, <1>3 DEF Savable, Sound
<1> QED
  BY <1>1, <1>4 DEF Savable

\* A contract that makes a frame with staged actions wait does not ask for
\* COMPLETED while they are in flight.
LEMMA ContractsWait ==
    ASSUME NEW m \in Manifests, Action # {}
    PROVE  m.allow_pending_approval \/ m.required_state # "COMPLETED"
<1> DEFINE c == Contents(Staged, FALSE)
<1>1. EvaluateCompletion(m, c) = "WAITING_FOR_EXECUTE"
  BY ApprovalStoreAssumption
<1>2. /\ c.badValidation = FALSE /\ c.frameError = FALSE
      /\ c.status = [a \in Action |-> "STAGED"] /\ c.action = [a \in Action |-> "PENDING_APPROVAL"]
  BY DEF Contents, Staged
<1>3. ~HasFailure(c)
  BY <1>2 DEF HasFailure, StepsOf
<1>4. ActionsOf(c, InFlight) # {}
  BY <1>2 DEF ActionsOf, InFlight
<1>5. PendingVerdict(m, c) = "WAITING_FOR_EXECUTE"
  BY <1>1, <1>3, <1>4 DEF EvaluateCompletion
<1> QED
  BY <1>5 DEF PendingVerdict, RequiredOr

\* What verify_frame() decides on a sound copy leaves a copy that may be saved.
LEMMA VerdictIsSavable ==
    ASSUME NEW f \in Frame, Sound(f), manifest \in Manifests, NEW bad \in BOOLEAN
    PROVE  LET final == EvaluateCompletion(manifest, Contents(f, bad))
               g == [f EXCEPT !.state = final]
           IN  g \in Frame /\ Savable(g)
<1> DEFINE c == Contents(f, bad)
           final == EvaluateCompletion(manifest, c)
           g == [f EXCEPT !.state = final]
<1>1. final \in Verdicts
  <2>1. manifest.required_state \in RequiredStates
    BY ApprovalStoreAssumption DEF Manifest
  <2> QED
    BY <2>1, VerdictType
<1>2. final \in TASKFRAME_STATES /\ final # "EXECUTING_PENDING"
  BY <1>1 DEF Verdicts, TASKFRAME_STATES
<1>3. /\ g \in Frame /\ g.state = final /\ g.error = f.error
      /\ g.action = f.action /\ g.executed = f.executed
      /\ final # "COMPLETED" => Sound(g)
  BY <1>2, StateFrame DEF Sound
<1>4. ASSUME final = "COMPLETED" PROVE Sound(g)
  <2>1. c.action = f.action /\ c.frameError = f.error
    BY DEF Contents
  <2>2. DOMAIN f.action = Action
    BY DEF Frame
  <2>3. ActionsOf(c, {"EXECUTED"}) = ActionsWith(f, "EXECUTED")
    BY <2>1, <2>2 DEF ActionsOf, ActionsWith
  <2>4. ActionsOf(c, InFlight) = {}
    <3>1. CASE Action = {}
      BY <3>1, <2>1, <2>2 DEF ActionsOf
    <3>2. CASE Action # {}
      BY <3>2, <1>4, CompletedVerdict, ContractsWait
    <3> QED
      BY <3>1, <3>2
  <2>5. \A a \in Action : f.action[a] \notin InFlight
    BY <2>1, <2>2, <2>4 DEF ActionsOf
  <2>6. ~f.error
    BY <1>4, <2>1, CompletedVerdict DEF HasFailure
  <2>7. manifest.success_executed_actions \subseteq ActionsWith(f, "EXECUTED")
    BY <1>4, <2>3, <2>4, CompletedVerdict
  <2>8. ActionsWith(g, "EXECUTED") = ActionsWith(f, "EXECUTED")
    BY <1>3 DEF ActionsWith
  <2> QED
    BY <1>3, <2>5, <2>6, <2>7, <2>8 DEF Sound
<1> QED
  BY <1>2, <1>3, <1>4 DEF Savable

(***************************************************************************)
(* The inductive invariant.                                                 *)
(***************************************************************************)

LEMMA InvInit == Init => IndInv
<1> SUFFICES ASSUME Init PROVE IndInv
  OBVIOUS
<1>1. TypeOK
  BY ApprovalStoreAssumption, StagedIsSavable, IdleIsFit DEF Init, TypeOK, Frame
<1>2. \A o \in Operator : Fit(op[o]) /\ view[o] \subseteq approved
  BY IdleIsFit DEF Init
<1>3. CalledWasApproved
  BY DEF Init, CalledWasApproved
<1> QED
  BY <1>1, <1>2, <1>3, StagedIsSavable DEF Init, IndInv

\* A process becomes a fit one; the files stay as they are.
LEMMA BecomesInv ==
    ASSUME IndInv, NEW o \in Operator, NEW p \in Process, Fit(p), Becomes(o, p),
           view' \in [Operator -> SUBSET Action],
           \A q \in Operator : view'[q] \subseteq view[q] \/ view'[q] \subseteq approved,
           calls' \in [Action -> 0..MaxCalls],
           called' \subseteq called \cup (Action \cap approved)
    PROVE  IndInv'
<1>1. /\ UNCHANGED <<manifest, disk, temp, listed, approved, crashes>>
      /\ op' = [op EXCEPT ![o] = p]
  BY DEF Becomes
<1>2. TypeOK'
  BY <1>1 DEF IndInv, TypeOK
<1>3. \A q \in Operator : Fit(op[q])' /\ view'[q] \subseteq approved'
  <2> SUFFICES ASSUME NEW q \in Operator PROVE Fit(op[q])' /\ view'[q] \subseteq approved'
    OBVIOUS
  <2>1. op'[q] = IF q = o THEN p ELSE op[q]
    BY <1>1 DEF IndInv, TypeOK
  <2>2. Fit(op'[q])
    BY <2>1 DEF IndInv
  <2>3. Fit(op[q])'
    BY <1>1, <2>2 DEF Fit, Executed, Savable, Sound
  <2> QED
    BY <1>1, <2>3 DEF IndInv
<1>4. CalledWasApproved'
  BY <1>1 DEF IndInv, CalledWasApproved
<1>5. Savable(disk)' /\ (temp # NoFrame => Savable(temp))' /\ (ActionsWith(disk, "APPROVED") \subseteq approved)'
  BY <1>1 DEF IndInv, Savable, Sound, ActionsWith
<1> QED
  BY <1>2, <1>3, <1>4, <1>5 DEF IndInv

\* The same when neither the screens nor the calls change.
LEMMA BecomesOnlyInv ==
    ASSUME IndInv, NEW o \in Operator, NEW p \in Process, Fit(p), Becomes(o, p),
           UNCHANGED <<view, called, calls>>
    PROVE  IndInv'
<1>1. /\ view' \in [Operator -> SUBSET Action] /\ calls' \in [Action -> 0..MaxCalls]
      /\ \A q \in Operator : view'[q] \subseteq view[q]
      /\ called' \subseteq called
  BY DEF IndInv, TypeOK
<1> QED
  BY <1>1, BecomesInv

LEMMA CommandInv ==
    ASSUME IndInv, NEW o \in Operator, Command(o)
    PROVE  IndInv'
<1>1. /\ disk \in Frame /\ Savable(disk) /\ Sound(disk)
      /\ ActionsWith(disk, "EXECUTED") \subseteq disk.executed
      /\ ActionsWith(disk, "APPROVED") \subseteq approved
  BY DEF IndInv, TypeOK, Savable, Sound
<1>2. \A a \in Action, st \in {"APPROVED", "REJECTED"} :
         Waiting => /\ With(disk, a, st) \in Frame /\ Savable(With(disk, a, st))
                    /\ ActionsWith(With(disk, a, st), "EXECUTED") \subseteq With(disk, a, st).executed
  <2> SUFFICES ASSUME NEW a \in Action, NEW st \in {"APPROVED", "REJECTED"}, Waiting
               PROVE  /\ With(disk, a, st) \in Frame /\ Savable(With(disk, a, st))
                      /\ ActionsWith(With(disk, a, st), "EXECUTED") \subseteq With(disk, a, st).executed
    OBVIOUS
  <2>1. st \in PENDING_ACTION_STATUSES /\ st # "EXECUTED"
    BY DEF PENDING_ACTION_STATUSES
  <2>2. /\ With(disk, a, st) \in Frame /\ With(disk, a, st).state = "WAITING_FOR_EXECUTE"
        /\ ActionsWith(With(disk, a, st), "EXECUTED") \subseteq With(disk, a, st).executed
    BY <1>1, <2>1, WithFrame DEF Waiting
  <2> QED
    BY <2>2, RecordedIsSound DEF Savable
<1>3. ASSUME NEW a \in Action, Approve(o, a) \/ ApproveAndExecute(o, a) PROVE IndInv'
  <2>1. PICK next \in {"idle", "execute"} :
            /\ Becomes(o, Saving(With(disk, a, "APPROVED"), next))
            /\ Waiting /\ UNCHANGED <<view, called, calls>>
    BY <1>3 DEF Approve, ApproveAndExecute
  <2> QED
    BY <1>2, <2>1, SavingIsFit, BecomesOnlyInv
<1>4. ASSUME NEW a \in Action, Reject(o, a) PROVE IndInv'
  <2> DEFINE f == [With(disk, a, "REJECTED") EXCEPT !.state = "FAILED_COMPLETION"]
  <2>1. "FAILED_COMPLETION" \in TASKFRAME_STATES
    BY DEF TASKFRAME_STATES
  <2>2. f \in Frame /\ Savable(f)
    BY <1>2, <1>4, <2>1, StateFrame DEF Reject, Savable
  <2> QED
    BY <1>4, <2>2, SavingIsFit, BecomesOnlyInv DEF Reject
<1>5. CASE ApproveAll(o)
  BY <1>1, <1>5, ApprovedAllFrame, SavingIsFit, BecomesOnlyInv DEF ApproveAll
<1>6. CASE ExecuteApproved(o)
  <2>1. PICK live \in BOOLEAN : Becomes(o, Executing(disk, live)) /\ UNCHANGED <<view, called, calls>>
    BY <1>6 DEF ExecuteApproved
  <2> QED
    BY <1>1, <2>1, ExecutingIsFit, BecomesOnlyInv
<1>7. \A a \in Action, live \in BOOLEAN, via \in {"cli", "ui"} :
         disk.state # "COMPLETED" /\ (live => a \in approved) =>
         LET p == [IdleProcess EXCEPT !.pc = "execute", !.frame = disk, !.todo = {a},
                                      !.live = live, !.via = via]
         IN  p \in Process /\ Fit(p)
  <2> SUFFICES ASSUME NEW a \in Action, NEW live \in BOOLEAN, NEW via \in {"cli", "ui"},
                      disk.state # "COMPLETED", live => a \in approved
               PROVE  LET p == [IdleProcess EXCEPT !.pc = "execute", !.frame = disk, !.todo = {a},
                                                   !.live = live, !.via = via]
                      IN  p \in Process /\ Fit(p)
    OBVIOUS
  <2> DEFINE p == [IdleProcess EXCEPT !.pc = "execute", !.frame = disk, !.todo = {a},
                                      !.live = live, !.via = via]
  <2>1. /\ p \in Process /\ p.pc = "execute" /\ p.frame = disk /\ p.todo = {a}
        /\ p.live = live /\ p.via = via
    BY <1>1, IdleIsFit DEF Process
  <2>2. Executed(p)
    BY <1>1, <2>1 DEF Executed, Savable
  <2> QED
    BY <2>1, <2>2 DEF Fit
<1>8. ASSUME NEW a \in Action, ExecuteOne(o, a) PROVE IndInv'
  <2>1. disk.action[a] = "APPROVED"
    BY <1>8 DEF ExecuteOne
  <2>2. a \in approved /\ disk.state # "COMPLETED"
    BY <1>1, <2>1 DEF ActionsWith, Sound, InFlight
  <2>3. PICK live \in BOOLEAN :
            /\ Becomes(o, [IdleProcess EXCEPT !.pc = "execute", !.frame = disk, !.todo = {a},
                                              !.live = live, !.via = "cli"])
            /\ UNCHANGED <<view, called, calls>>
    BY <1>8 DEF ExecuteOne
  <2> QED
    BY <1>7, <2>2, <2>3, BecomesOnlyInv
<1>9. CASE Refresh(o)
  <2>1. /\ UNCHANGED <<manifest, disk, temp, listed, op, approved, called, calls, crashes>>
        /\ view' = [view EXCEPT ![o] = ActionsWith(disk, "APPROVED")]
    BY <1>9 DEF Refresh, Shown
  <2>2. ActionsWith(disk, "APPROVED") \subseteq Action
    BY DEF ActionsWith
  <2>3. TypeOK'
    BY <2>1, <2>2 DEF IndInv, TypeOK
  <2>4. \A q \in Operator : view'[q] \subseteq approved
    BY <1>1, <2>1 DEF IndInv, TypeOK
  <2> QED
    BY <2>1, <2>3, <2>4 DEF IndInv, Fit, Executed, Savable, Sound, ActionsWith, CalledWasApproved
<1>10. ASSUME NEW a \in Action, ExecuteShown(o, a) PROVE IndInv'
  <2>1. a \in approved /\ disk.state # "COMPLETED"
    BY <1>10 DEF ExecuteShown, IndInv, Executable
  <2>2. /\ Becomes(o, [IdleProcess EXCEPT !.pc = "execute", !.frame = disk, !.todo = {a},
                                          !.live = TRUE, !.via = "ui"])
        /\ view' = [view EXCEPT ![o] = {}]
        /\ calls' = calls /\ called' = called
    BY <1>10 DEF ExecuteShown
  <2>3. /\ view' \in [Operator -> SUBSET Action] /\ calls' \in [Action -> 0..MaxCalls]
        /\ \A q \in Operator : view'[q] \subseteq view[q]
        /\ called' \subseteq called
    BY <2>2 DEF IndInv, TypeOK
  <2> QED
    BY <1>7, <2>1, <2>2, <2>3, BecomesInv
<1> QED
  BY <1>3, <1>4, <1>5, <1>6, <1>8, <1>9, <1>10 DEF Command

\* The copy a tool runner leaves after action a.
LEMMA RecordedFrame ==
    ASSUME IndInv, NEW o \in Operator, op[o].pc = "execute",
           NEW a \in Action, NEW st \in {"EXECUTED", "FAILED"}
    PROVE  LET g == Recorded(o, a, st)
               f == op[o].frame
           IN  /\ f \in Frame /\ g \in Frame
               /\ g.state = f.state /\ g.executed = f.executed /\ g.error = f.error
               /\ ActionsWith(g, "EXECUTED") \subseteq f.executed \cup {a}
               /\ st = "FAILED" => ActionsWith(g, "EXECUTED") \subseteq f.executed
<1>1. op[o].frame \in Frame /\ ActionsWith(op[o].frame, "EXECUTED") \subseteq op[o].frame.executed
  BY DEF IndInv, TypeOK, Process, Fit, Executed, Sound
<1>2. st \in PENDING_ACTION_STATUSES
  BY DEF PENDING_ACTION_STATUSES
<1> QED
  BY <1>1, <1>2, WithFrame DEF Recorded

\* The copy after a failure may be saved.
LEMMA FailedIsSavable ==
    ASSUME IndInv, NEW o \in Operator, op[o].pc = "execute", NEW a \in Action
    PROVE  Failed(o, a) \in Frame /\ Savable(Failed(o, a))
<1> DEFINE g == Recorded(o, a, "FAILED")
           h == Failed(o, a)
<1>1. /\ g \in Frame /\ ActionsWith(g, "EXECUTED") \subseteq g.executed
  BY RecordedFrame
<1>2. h = [g EXCEPT !.state = "FAILED_EXECUTION", !.error = TRUE]
  BY DEF Failed
<1>3. /\ h \in Frame /\ h.state = "FAILED_EXECUTION"
      /\ h.action = g.action /\ h.executed = g.executed
  BY <1>1, <1>2 DEF Frame, TASKFRAME_STATES
<1>4. ActionsWith(h, "EXECUTED") \subseteq h.executed
  BY <1>1, <1>3 DEF ActionsWith
<1> QED
  BY <1>3, <1>4, RecordedIsSound DEF Savable

LEMMA RefuseInv ==
    ASSUME IndInv, NEW o \in Operator, NEW a \in Action, Refuse(o, a)
    PROVE  IndInv'
<1>1. op[o].pc = "execute" /\ UNCHANGED <<view, called, calls>>
  BY DEF Refuse, Turn
<1>2. Failed(o, a) \in Frame /\ Savable(Failed(o, a))
  BY <1>1, FailedIsSavable
<1>3. CASE Becomes(o, Saving(Failed(o, a), "idle"))
  BY <1>1, <1>2, <1>3, SavingIsFit, BecomesOnlyInv
<1>4. CASE /\ op[o].via = "cli"
           /\ Becomes(o, Saving([Failed(o, a) EXCEPT !.state = op[o].frame.state], "idle"))
  <2>1. /\ op[o].frame.state \in TASKFRAME_STATES
        /\ op[o].frame.state # "COMPLETED" /\ op[o].frame.state # "EXECUTING_PENDING"
    BY <1>1, <1>4 DEF IndInv, TypeOK, Process, Frame, Fit, Executed
  <2>2. /\ [Failed(o, a) EXCEPT !.state = op[o].frame.state] \in Frame
        /\ Savable([Failed(o, a) EXCEPT !.state = op[o].frame.state])
    BY <1>2, <2>1, StateFrame DEF Savable, Sound
  <2> QED
    BY <1>1, <1>4, <2>2, SavingIsFit, BecomesOnlyInv
<1> QED
  BY <1>3, <1>4 DEF Refuse

\* A live call is counted for an action that was approved.
LEMMA CallWasApproved ==
    ASSUME IndInv, NEW o \in Operator, NEW a \in Action, Turn(o, a),
           IF op[o].live THEN CallLive(a) ELSE UNCHANGED <<called, calls>>
    PROVE  /\ calls' \in [Action -> 0..MaxCalls]
           /\ called' \subseteq called \cup (Action \cap approved)
<1>1. op[o].live => a \in approved
  BY DEF Turn, IndInv, Fit
<1>2. MaxCalls \in Nat /\ calls \in [Action -> 0..MaxCalls]
  BY ApprovalStoreAssumption DEF IndInv, TypeOK
<1>3. CASE op[o].live
  BY <1>1, <1>2, <1>3 DEF CallLive
<1>4. CASE ~op[o].live
  BY <1>2, <1>4
<1> QED
  BY <1>3, <1>4

LEMMA PerformInv ==
    ASSUME IndInv, NEW o \in Operator, NEW a \in Action, Perform(o, a)
    PROVE  IndInv'
<1> DEFINE r == Recorded(o, a, "EXECUTED")
           f == Logged(r, a)
<1>1. /\ op[o] \in Process /\ op[o].pc = "execute" /\ Fit(op[o])
      /\ op[o].frame.state \in Executable
      /\ view' = view
  BY DEF Perform, Turn, SafeToExecute, IndInv, TypeOK
<1>2. /\ r \in Frame /\ r.state = op[o].frame.state
      /\ ActionsWith(r, "EXECUTED") \subseteq r.executed \cup {a}
  BY <1>1, RecordedFrame
<1>3. /\ f \in Frame /\ f.state = r.state /\ f.action = r.action
      /\ f.executed = r.executed \cup {a}
  BY <1>2 DEF Logged, Frame
<1>4. ActionsWith(f, "EXECUTED") \subseteq f.executed
  BY <1>2, <1>3 DEF ActionsWith
<1>5. Sound(f) /\ f.state # "COMPLETED"
  BY <1>1, <1>2, <1>3, <1>4, RecordedIsSound DEF Executable
<1>6. /\ calls' \in [Action -> 0..MaxCalls]
      /\ called' \subseteq called \cup (Action \cap approved)
  BY CallWasApproved DEF Perform
<1>7. /\ view' \in [Operator -> SUBSET Action]
      /\ \A q \in Operator : view'[q] \subseteq view[q]
  BY <1>1 DEF IndInv, TypeOK
<1>8. CASE /\ op[o].via = "command"
           /\ Becomes(o, [op[o] EXCEPT !.frame = f, !.todo = @ \ {a}])
  <2> DEFINE p == [op[o] EXCEPT !.frame = f, !.todo = @ \ {a}]
  <2>1. /\ p \in Process /\ p.pc = "execute" /\ p.frame = f /\ p.via = "command"
        /\ p.live = op[o].live /\ p.todo \subseteq op[o].todo
    BY <1>1, <1>3, <1>8 DEF Process
  <2>2. Fit(p)
    BY <1>1, <1>5, <2>1 DEF Fit, Executed
  <2> QED
    BY <1>6, <1>7, <1>8, <2>1, <2>2, BecomesInv
<1>9. CASE Becomes(o, Saving([f EXCEPT !.state = "FAILED_EXECUTION"], "idle"))
  <2>1. "FAILED_EXECUTION" \in TASKFRAME_STATES
    BY DEF TASKFRAME_STATES
  <2>2. /\ [f EXCEPT !.state = "FAILED_EXECUTION"] \in Frame
        /\ Savable([f EXCEPT !.state = "FAILED_EXECUTION"])
    BY <1>3, <1>4, <2>1, StateFrame DEF Savable
  <2> QED
    BY <1>6, <1>7, <1>9, <2>2, SavingIsFit, BecomesInv
<1>10. CASE op[o].via # "command" /\ Becomes(o, Saving(f, "idle"))
  <2>1. f.state # "EXECUTING_PENDING"
    BY <1>1, <1>2, <1>3, <1>10 DEF Fit, Executed
  <2>2. Savable(f)
    BY <1>5, <2>1 DEF Savable
  <2> QED
    BY <1>3, <1>6, <1>7, <1>10, <2>2, SavingIsFit, BecomesInv
<1> QED
  BY <1>8, <1>9, <1>10 DEF Perform

LEMMA FailLiveInv ==
    ASSUME IndInv, NEW o \in Operator, NEW a \in Action, FailLive(o, a)
    PROVE  IndInv'
<1>1. op[o].pc = "execute"
  BY DEF FailLive, Turn
<1>2. Failed(o, a) \in Frame /\ Savable(Failed(o, a))
  BY <1>1, FailedIsSavable
<1>3. /\ calls' \in [Action -> 0..MaxCalls]
      /\ called' \subseteq called \cup (Action \cap approved)
  BY CallWasApproved DEF FailLive
<1>4. /\ view' \in [Operator -> SUBSET Action]
      /\ \A q \in Operator : view'[q] \subseteq view[q]
  BY DEF FailLive, IndInv, TypeOK
<1> QED
  BY <1>2, <1>3, <1>4, SavingIsFit, BecomesInv DEF FailLive

LEMMA VerifyInv ==
    ASSUME IndInv, NEW o \in Operator, Verify(o)
    PROVE  IndInv'
<1> DEFINE f == op[o].frame
           ended(st) == [op[o].frame EXCEPT !.state = st]
<1>1. f \in Frame /\ Sound(f) /\ UNCHANGED <<view, called, calls>>
  BY DEF Verify, IndInv, TypeOK, Process, Fit, Executed
<1>2. ASSUME NEW bad \in BOOLEAN, NEW next \in {"again", "idle"},
             Becomes(o, Saving(ended(EvaluateCompletion(manifest, Contents(f, bad))), next))
      PROVE  IndInv'
  <2>1. manifest \in Manifests
    BY DEF IndInv, TypeOK
  <2> QED
    BY <1>1, <1>2, <2>1, VerdictIsSavable, SavingIsFit, BecomesOnlyInv
<1>3. CASE Becomes(o, Saving(ended("VERIFYING"), "idle"))
  <2>1. "VERIFYING" \in TASKFRAME_STATES
    BY DEF TASKFRAME_STATES
  <2>2. ended("VERIFYING") \in Frame /\ Savable(ended("VERIFYING"))
    BY <1>1, <2>1, StateFrame DEF Savable, Sound
  <2> QED
    BY <1>1, <1>3, <2>2, SavingIsFit, BecomesOnlyInv
<1>4. CASE Becomes(o, IdleProcess)
  BY <1>1, <1>4, IdleIsFit, BecomesOnlyInv
<1> QED
  BY <1>2, <1>3, <1>4 DEF Verify

LEMMA WriteTempInv ==
    ASSUME IndInv, NEW o \in Operator, WriteTemp(o)
    PROVE  IndInv'
<1> DEFINE p == [op[o] EXCEPT !.pc = "replace"]
<1>1. /\ op[o] \in Process /\ op[o].frame \in Frame /\ Savable(op[o].frame)
  BY DEF WriteTemp, IndInv, TypeOK, Process, Fit
<1>2. /\ p \in Process /\ p.pc = "replace" /\ p.frame = op[o].frame
      /\ p.live = op[o].live /\ p.todo = op[o].todo
  BY <1>1 DEF Process
<1>3. Fit(p)
  BY <1>1, <1>2 DEF IndInv, Fit
<1>4. /\ temp' = op[o].frame
      /\ op' = [op EXCEPT ![o] = p]
      /\ UNCHANGED <<manifest, disk, listed, view, approved, called, calls, crashes>>
  BY DEF WriteTemp
<1>5. TypeOK'
  BY <1>1, <1>2, <1>4 DEF IndInv, TypeOK
<1>6. \A q \in Operator : Fit(op'[q])
  BY <1>3, <1>4 DEF IndInv, TypeOK
<1> QED
  BY <1>1, <1>4, <1>5, <1>6 DEF IndInv, Fit, Executed, Savable, Sound, ActionsWith, CalledWasApproved

LEMMA ReplaceInv ==
    ASSUME IndInv, NEW o \in Operator, Replace(o)
    PROVE  IndInv'
<1>1. op[o] \in Process /\ Savable(op[o].frame) /\ op[o].pc = "replace"
  BY DEF Replace, IndInv, TypeOK, Fit
<1>2. \A next \in {"raise", op[o].next} :
         LET p == [op[o] EXCEPT !.pc = "clean", !.next = next]
         IN  p \in Process /\ Fit(p)
  BY <1>1 DEF Process, IndInv, Fit
<1>3. CASE Taken
  <2> DEFINE p == [op[o] EXCEPT !.pc = "clean", !.next = "raise"]
  <2>1. /\ op' = [op EXCEPT ![o] = p]
        /\ UNCHANGED <<manifest, disk, temp, listed, view, approved, called, calls, crashes>>
    BY <1>3 DEF Replace
  <2>2. TypeOK'
    BY <1>2, <2>1 DEF IndInv, TypeOK
  <2>3. \A q \in Operator : Fit(op'[q])
    BY <1>2, <2>1 DEF IndInv, TypeOK
  <2> QED
    BY <2>1, <2>2, <2>3 DEF IndInv, Fit, Executed, Savable, Sound, ActionsWith, CalledWasApproved
<1>4. CASE ~Taken
  <2> DEFINE p == [op[o] EXCEPT !.pc = "clean"]
  <2>1. /\ disk' = temp /\ temp' = NoFrame
        /\ approved' = approved \cup ActionsWith(disk', "APPROVED")
        /\ op' = [op EXCEPT ![o] = p]
        /\ UNCHANGED <<manifest, listed, view, called, calls, crashes>>
    BY <1>4 DEF Replace
  <2>2. temp \in Frame /\ Savable(temp)
    BY <1>4, FrameIsThere DEF IndInv, TypeOK, Taken
  <2>3. p \in Process /\ Fit(p)
    BY <1>1 DEF Process, IndInv, Fit
  <2>4. ActionsWith(disk', "APPROVED") \subseteq Action /\ approved \subseteq approved'
    BY <2>1 DEF ActionsWith
  <2>5. TypeOK'
    BY <2>1, <2>2, <2>3, <2>4 DEF IndInv, TypeOK
  <2>6. \A q \in Operator : Fit(op'[q]) /\ view[q] \subseteq approved
    BY <2>1, <2>3 DEF IndInv, TypeOK
  <2>7. \A q \in Operator : Fit(op[q])'
    <3> SUFFICES ASSUME NEW q \in Operator PROVE Fit(op[q])'
      OBVIOUS
    <3>1. Fit(op'[q])
      BY <2>6
    <3> QED
      BY <2>1, <2>4, <3>1 DEF Fit, Executed, Savable, Sound
  <2>8. Savable(disk)'
    BY <2>1, <2>2 DEF Savable, Sound, ActionsWith
  <2>9. CalledWasApproved'
    BY <2>1, <2>4 DEF IndInv, CalledWasApproved
  <2>10. (ActionsWith(disk, "APPROVED") \subseteq approved)'
    BY <2>1 DEF ActionsWith
  <2> QED
    BY <2>1, <2>4, <2>5, <2>6, <2>7, <2>8, <2>9, <2>10 DEF IndInv
<1> QED
  BY <1>3, <1>4

LEMMA CleanInv ==
    ASSUME IndInv, NEW o \in Operator, Clean(o)
    PROVE  IndInv'
<1> DEFINE p == IF op[o].next = "raise" THEN IdleProcess ELSE [op[o] EXCEPT !.pc = "report"]
<1>1. op[o] \in Process /\ Savable(op[o].frame) /\ op[o].pc = "clean"
  BY DEF Clean, IndInv, TypeOK, Fit
<1>2. p \in Process /\ Fit(p)
  BY <1>1, IdleIsFit DEF Process, IndInv, Fit
<1>3. /\ op' = [op EXCEPT ![o] = p] /\ temp' = NoFrame
      /\ UNCHANGED <<manifest, disk, listed, view, approved, called, calls, crashes>>
  BY DEF Clean
<1>4. TypeOK'
  BY <1>2, <1>3 DEF IndInv, TypeOK
<1>5. \A q \in Operator : Fit(op'[q])
  BY <1>2, <1>3 DEF IndInv, TypeOK
<1> QED
  BY <1>3, <1>4, <1>5 DEF IndInv, Fit, Executed, Savable, Sound, ActionsWith, CalledWasApproved

LEMMA ReportInv ==
    ASSUME IndInv, NEW o \in Operator, Report(o)
    PROVE  IndInv'
<1> DEFINE f == op[o].frame
           p == AfterSave(op[o])
<1>1. op[o] \in Process /\ f \in Frame /\ Savable(f) /\ Sound(f)
  BY DEF Report, IndInv, TypeOK, Process, Fit, Savable
<1>2. p \in Process /\ Fit(p)
  <2>1. Executing(f, FALSE) \in Process /\ Fit(Executing(f, FALSE))
    BY <1>1, ExecutingIsFit
  <2>2. Saving(f, "idle") \in Process /\ Fit(Saving(f, "idle"))
    BY <1>1, SavingIsFit
  <2> QED
    BY <2>1, <2>2, IdleIsFit DEF AfterSave
<1>3. /\ op' = [op EXCEPT ![o] = p] /\ listed' = f.state
      /\ view' = view \/ view' = [view EXCEPT ![o] = ActionsWith(disk, "APPROVED")]
      /\ UNCHANGED <<manifest, disk, temp, approved, called, calls, crashes>>
  BY DEF Report, Reported, Shown
<1>4. ActionsWith(disk, "APPROVED") \subseteq Action /\ f.state \in TASKFRAME_STATES
  BY <1>1 DEF ActionsWith, Frame
<1>5. TypeOK'
  BY <1>2, <1>3, <1>4 DEF IndInv, TypeOK
<1>6. \A q \in Operator : Fit(op'[q]) /\ view'[q] \subseteq approved
  BY <1>2, <1>3 DEF IndInv, TypeOK
<1> QED
  BY <1>3, <1>5, <1>6 DEF IndInv, Fit, Executed, Savable, Sound, ActionsWith, CalledWasApproved

LEMMA CrashInv ==
    ASSUME IndInv, NEW o \in Operator, Crash(o)
    PROVE  IndInv'
<1>1. /\ op' = [op EXCEPT ![o] = IdleProcess] /\ view' = [view EXCEPT ![o] = {}]
      /\ crashes < MaxCrashes /\ crashes' = crashes + 1
      /\ UNCHANGED <<manifest, disk, temp, listed, approved, called, calls>>
  BY DEF Crash
<1>2. TypeOK'
  BY <1>1, IdleIsFit, ApprovalStoreAssumption DEF IndInv, TypeOK
<1>3. \A q \in Operator : Fit(op'[q]) /\ view'[q] \subseteq approved
  BY <1>1, IdleIsFit DEF IndInv, TypeOK
<1> QED
  BY <1>1, <1>2, <1>3 DEF IndInv, Fit, Executed, Savable, Sound, ActionsWith, CalledWasApproved

LEMMA InvNext ==
    ASSUME IndInv, [Next]_vars
    PROVE  IndInv'
<1>1. CASE UNCHANGED vars
  BY <1>1 DEF vars, IndInv, TypeOK, Fit, Executed, Savable, Sound, ActionsWith, CalledWasApproved
<1>2. CASE Next
  <2>1. PICK o \in Operator : Command(o) \/ Progress(o) \/ Crash(o)
    BY <1>2 DEF Next
  <2>2. CASE Progress(o)
    BY <2>2, RefuseInv, PerformInv, FailLiveInv, VerifyInv, WriteTempInv, ReplaceInv,
       CleanInv, ReportInv DEF Progress
  <2> QED
    BY <2>1, <2>2, CommandInv, CrashInv
<1> QED
  BY <1>1, <1>2

(***************************************************************************)
(* One operator: what is remembered of the calls, what saves may change,    *)
(* and what the listing tells.                                              *)
(***************************************************************************)

OneOperator == \E o \in Operator : Operator = {o}

\* A status follows itself, an approval or a rejection what was pending, and
\* the end of an execution an approval.
LEMMA SuccessorFacts ==
    /\ \A st \in PENDING_ACTION_STATUSES : st \in Successors(st)
    /\ {"APPROVED", "REJECTED"} \subseteq Successors("PENDING_APPROVAL")
    /\ {"EXECUTED", "FAILED"} \subseteq Successors("APPROVED")
<1> DEFINE After(st) == PENDING_ACTION_TRANSITIONS[st]
           Later(st) == UNION {PENDING_ACTION_TRANSITIONS[t] : t \in PENDING_ACTION_TRANSITIONS[st]}
<1>1. \A st : Successors(st) = Later(st) \cup After(st) \cup {st}
  BY Zenon DEF Successors
<1>2. {"APPROVED", "REJECTED"} \subseteq After("PENDING_APPROVAL")
  BY DEF PENDING_ACTION_TRANSITIONS, PENDING_ACTION_STATUSES
<1>3. /\ "EXECUTING" \in After("APPROVED") /\ "FAILED" \in After("APPROVED")
      /\ "EXECUTED" \in After("EXECUTING")
  BY DEF PENDING_ACTION_TRANSITIONS, PENDING_ACTION_STATUSES
<1>4. "EXECUTED" \in Later("APPROVED")
  BY <1>3
<1> HIDE DEF After, Later
<1> QED
  BY <1>1, <1>2, <1>3, <1>4

LEMMA NotFinal ==
    /\ "WAITING_FOR_EXECUTE" \notin FinalStates /\ "EXECUTING_PENDING" \notin FinalStates
    /\ \A st \in Executable : st \notin FinalStates
    /\ "FAILED_EXECUTION" \in FinalStates /\ "FAILED_COMPLETION" \in FinalStates
  BY DEF FinalStates, SuccessStates, FailureStates, Executable

\* The effects a copy shows stay in every copy that loses no execution.
LEMMA StillRemembers ==
    ASSUME NEW f, NEW g, Remembers(f),
           f.state \in FinalStates => g.state \in FinalStates,
           f.executed \subseteq g.executed,
           \A b \in Action : f.action[b] = "EXECUTED" => g.action[b] = "EXECUTED"
    PROVE  Remembers(g)
  BY DEF Remembers, Spent, Shows

\* The fields of the processes the commands begin.
LEMMA SavingFields ==
    ASSUME NEW f, NEW next
    PROVE  LET p == Saving(f, next) IN
             p.pc = "write" /\ p.frame = f /\ p.next = next
  BY DEF Saving, IdleProcess

LEMMA ExecutingFields ==
    ASSUME NEW f \in Frame, NEW live
    PROVE  LET p == Executing(f, live) IN
             /\ p.pc = "execute" /\ p.live = live /\ p.via = "command" /\ p.next = "idle"
             /\ p.todo = ToExecute(f)
             /\ p.frame.state = "EXECUTING_PENDING"
             /\ p.frame.action = f.action /\ p.frame.executed = f.executed
  BY DEF Executing, IdleProcess, Frame

\* A process that saves what follows from the frame on disk.
LEMMA SavingIsSerial ==
    ASSUME NEW f, NEW next \in {"idle", "execute", "again", "show"},
           next = "execute" => f.state = "WAITING_FOR_EXECUTE",
           Remembers(f),
           disk.state \in FinalStates => f.state = disk.state,
           StatusesFollow(f),
           crashes = 0 => listed = disk.state
    PROVE  Serial(Saving(f, next))
<1>1. LET p == Saving(f, next) IN p.pc = "write" /\ p.frame = f /\ p.next = next
  BY SavingFields
<1> QED
  BY <1>1 DEF Serial

\* A process that executes what is approved in a frame that waits on disk.
LEMMA ExecutingIsSerial ==
    ASSUME disk \in Frame, disk.state = "WAITING_FOR_EXECUTE", Remembers(disk),
           crashes = 0 => listed = disk.state, NEW live \in BOOLEAN
    PROVE  Serial(Executing(disk, live))
<1> DEFINE p == Executing(disk, live)
<1>1. /\ p.pc = "execute" /\ p.live = live /\ p.via = "command" /\ p.next = "idle"
      /\ p.todo = ToExecute(disk)
      /\ p.frame.state = "EXECUTING_PENDING"
      /\ p.frame.action = disk.action /\ p.frame.executed = disk.executed
  BY ExecutingFields
<1> HIDE DEF p
<1>2. StatusesFollow(p.frame)
  BY <1>1, SuccessorFacts DEF StatusesFollow, Frame
<1>3. \A a \in p.todo : p.frame.action[a] = "APPROVED" /\ disk.action[a] = "APPROVED"
  BY <1>1 DEF ToExecute, ActionsWith
<1>4. SerialExecution(p)
  BY <1>1, <1>2, <1>3 DEF SerialExecution
<1>5. Remembers(p.frame)
  BY <1>1, NotFinal, StillRemembers
<1>6. Serial(p)
  BY <1>1, <1>4, <1>5 DEF Serial
<1> QED
  BY <1>6 DEF p

\* The process becomes another one that fits the files; nothing else changes.
LEMMA BecomesSerial ==
    ASSUME OneOperator, TypeOK, SerialInv, NEW o \in Operator, NEW p, Becomes(o, p),
           Serial(p), UNCHANGED <<called, calls>>
    PROVE  SerialInv'
<1>1. \A q \in Operator : op'[q] = p
  BY DEF OneOperator, Becomes, TypeOK
<1>2. UNCHANGED <<manifest, disk, temp, listed, crashes, called, calls>>
  BY DEF Becomes
<1>3. \A q \in Operator : Serial(op[q])'
  BY <1>1, <1>2 DEF Serial, SerialExecution, Remembers, Spent, Shows, StatusesFollow
<1> QED
  BY <1>2, <1>3 DEF SerialInv, RepeatedByCrashesOnly

\* A process without a command.
LEMMA IdleIsSerial ==
    ASSUME Remembers(disk), crashes = 0 => listed = disk.state
    PROVE  Serial(IdleProcess)
<1>1. IdleProcess.pc = "idle" /\ IdleProcess.next = "idle"
  BY DEF IdleProcess
<1> QED
  BY <1>1 DEF Serial

LEMMA SerialInit == Init => SerialInv
<1> SUFFICES ASSUME Init PROVE SerialInv
  OBVIOUS
<1>1. \A e \in Action : calls[e] = 0
  BY DEF Init
<1>2. crashes = 0 /\ called = {} /\ listed = disk.state /\ \A o \in Operator : op[o] = IdleProcess
  BY DEF Init
<1>3. Remembers(disk) /\ RepeatedByCrashesOnly
  BY <1>1, <1>2 DEF Remembers, RepeatedByCrashesOnly
<1>4. Serial(IdleProcess)
  BY <1>2, <1>3, IdleIsSerial
<1> QED
  BY <1>2, <1>3, <1>4 DEF SerialInv

LEMMA SerialCommand ==
    ASSUME OneOperator, IndInv, SerialInv, NEW o \in Operator, Command(o)
    PROVE  SerialInv'
<1>1. TypeOK /\ disk \in Frame /\ \A a \in Action : disk.action[a] \in PENDING_ACTION_STATUSES
  BY DEF IndInv, TypeOK, Frame
<1>2. op[o].pc = "idle" \/ UNCHANGED <<manifest, disk, temp, listed, op, approved, called, calls, crashes>>
  BY DEF Command, Approve, Reject, ApproveAndExecute, ExecuteOne, ExecuteShown, ApproveAll,
         ExecuteApproved, Refresh, Given, Idle
<1>3. Serial(op[o])
  BY DEF SerialInv
<1>4. op[o].pc = "idle" => Remembers(disk) /\ (crashes = 0 => listed = disk.state)
  BY <1>3 DEF Serial
\* The copies an approval or a rejection leaves.
<1>w. ASSUME NEW a \in Action, NEW st \in {"APPROVED", "REJECTED"}, Remembers(disk),
             disk.action[a] = "PENDING_APPROVAL", Waiting
      PROVE  LET f == With(disk, a, st) IN
               /\ f.state = "WAITING_FOR_EXECUTE" /\ StatusesFollow(f) /\ Remembers(f)
               /\ f \in Frame
  <2> DEFINE f == With(disk, a, st)
  <2>1. st \in PENDING_ACTION_STATUSES
    BY DEF PENDING_ACTION_STATUSES
  <2>2. /\ f \in Frame /\ f.state = disk.state /\ f.executed = disk.executed
        /\ \A b \in Action : f.action[b] = IF b = a THEN st ELSE disk.action[b]
    BY <1>1, <2>1 DEF With, Frame
  <2> HIDE DEF f
  <2>3. StatusesFollow(f)
    BY <1>1, <1>w, <2>2, SuccessorFacts DEF StatusesFollow
  <2>4. Remembers(f)
    BY <1>w, <2>2, StillRemembers
  <2> QED
    BY <1>w, <2>2, <2>3, <2>4 DEF Waiting, f
<1>5. ASSUME NEW a \in Action, Approve(o, a) \/ ApproveAndExecute(o, a) PROVE SerialInv'
  <2>1. PICK next \in {"idle", "execute"} :
            /\ Becomes(o, Saving(With(disk, a, "APPROVED"), next))
            /\ Waiting /\ disk.action[a] = "PENDING_APPROVAL" /\ op[o].pc = "idle"
            /\ UNCHANGED <<view, called, calls>>
    BY <1>5 DEF Approve, ApproveAndExecute, Given, Idle
  <2>2. Serial(Saving(With(disk, a, "APPROVED"), next))
    BY <1>4, <1>w, <2>1, NotFinal, SavingIsSerial DEF Waiting
  <2> QED
    BY <1>1, <2>1, <2>2, BecomesSerial
<1>6. ASSUME NEW a \in Action, Reject(o, a) PROVE SerialInv'
  <2> DEFINE g == With(disk, a, "REJECTED")
             f == [g EXCEPT !.state = "FAILED_COMPLETION"]
  <2>1. /\ Becomes(o, Saving(f, "idle")) /\ Waiting /\ op[o].pc = "idle"
        /\ disk.action[a] = "PENDING_APPROVAL" /\ UNCHANGED <<view, called, calls>>
    BY <1>6 DEF Reject, Given, Idle
  <2>2. g \in Frame /\ StatusesFollow(g)
    BY <1>4, <1>w, <2>1
  <2>3. f.state = "FAILED_COMPLETION" /\ f.action = g.action
    BY <2>2 DEF Frame
  <2> HIDE DEF f, g
  <2>4. StatusesFollow(f) /\ Remembers(f)
    BY <2>2, <2>3, NotFinal DEF StatusesFollow, Remembers, Spent
  <2>5. Serial(Saving(f, "idle"))
    BY <1>4, <2>1, <2>4, NotFinal, SavingIsSerial DEF Waiting
  <2> QED
    BY <1>1, <2>1, <2>5, BecomesSerial
<1>7. CASE ApproveAll(o)
  <2> DEFINE f == ApprovedAll(disk)
  <2>1. Becomes(o, Saving(f, "show")) /\ op[o].pc = "idle" /\ UNCHANGED <<view, called, calls>>
    BY <1>7 DEF ApproveAll, Given, Idle
  <2>2. /\ f.state = disk.state /\ f.executed = disk.executed
        /\ \A b \in Action : f.action[b] = IF disk.action[b] = "PENDING_APPROVAL"
                                           THEN "APPROVED" ELSE disk.action[b]
    BY <1>1 DEF ApprovedAll, Frame
  <2> HIDE DEF f
  <2>3. StatusesFollow(f)
    BY <1>1, <2>2, SuccessorFacts DEF StatusesFollow
  <2>4. Remembers(f)
    BY <1>4, <2>1, <2>2, StillRemembers
  <2>5. Serial(Saving(f, "show"))
    BY <1>4, <2>1, <2>2, <2>3, <2>4, SavingIsSerial
  <2> QED
    BY <1>1, <2>1, <2>5, BecomesSerial
<1>8. CASE ExecuteApproved(o)
  <2>1. PICK live \in BOOLEAN : /\ Becomes(o, Executing(disk, live)) /\ Waiting
                                /\ op[o].pc = "idle" /\ UNCHANGED <<view, called, calls>>
    BY <1>8 DEF ExecuteApproved, Given, Idle
  <2>2. Serial(Executing(disk, live))
    BY <1>1, <1>4, <2>1, ExecutingIsSerial DEF Waiting
  <2> QED
    BY <1>1, <2>1, <2>2, BecomesSerial
\* One action of the CLI or the UI.
<1>x. ASSUME NEW a \in Action, NEW live \in BOOLEAN, NEW via \in {"cli", "ui"},
             op[o].pc = "idle",
             live => disk.state \in Executable, via = "ui" => live,
             via = "cli" => disk.action[a] = "APPROVED"
      PROVE  Serial([IdleProcess EXCEPT !.pc = "execute", !.frame = disk, !.todo = {a},
                                        !.live = live, !.via = via])
  <2> DEFINE p == [IdleProcess EXCEPT !.pc = "execute", !.frame = disk, !.todo = {a},
                                      !.live = live, !.via = via]
  <2>1. /\ p.pc = "execute" /\ p.frame = disk /\ p.todo = {a} /\ p.live = live
        /\ p.via = via /\ p.next = "idle"
    BY DEF IdleProcess
  <2> HIDE DEF p
  <2>2. StatusesFollow(p.frame)
    BY <1>1, <2>1, SuccessorFacts DEF StatusesFollow
  <2>3. SerialExecution(p)
    BY <1>x, <2>1, <2>2 DEF SerialExecution
  <2>4. Serial(p)
    BY <1>4, <1>x, <2>1, <2>3 DEF Serial
  <2> QED
    BY <2>4 DEF p
<1>9. ASSUME NEW a \in Action, ExecuteOne(o, a) PROVE SerialInv'
  <2>1. PICK live \in BOOLEAN :
            /\ live => disk.state \in Executable
            /\ Becomes(o, [IdleProcess EXCEPT !.pc = "execute", !.frame = disk, !.todo = {a},
                                              !.live = live, !.via = "cli"])
            /\ disk.action[a] = "APPROVED" /\ op[o].pc = "idle"
            /\ UNCHANGED <<view, called, calls>>
    BY <1>9 DEF ExecuteOne, Given, Idle
  <2> QED
    BY <1>1, <1>x, <2>1, BecomesSerial
<1>10. ASSUME NEW a \in Action, ExecuteShown(o, a) PROVE SerialInv'
  <2>1. /\ Becomes(o, [IdleProcess EXCEPT !.pc = "execute", !.frame = disk, !.todo = {a},
                                          !.live = TRUE, !.via = "ui"])
        /\ disk.state \in Executable /\ op[o].pc = "idle" /\ UNCHANGED <<called, calls>>
    BY <1>10 DEF ExecuteShown, Given, Idle
  <2> QED
    BY <1>1, <1>x, <2>1, BecomesSerial
<1>11. CASE Refresh(o)
  <2>1. UNCHANGED <<manifest, disk, temp, listed, op, approved, called, calls, crashes>>
    BY <1>11 DEF Refresh
  <2> QED
    BY <2>1 DEF SerialInv, RepeatedByCrashesOnly, Serial, SerialExecution, Remembers, Spent,
                Shows, StatusesFollow
<1> QED
  BY <1>5, <1>6, <1>7, <1>8, <1>9, <1>10, <1>11 DEF Command

\* What a process that executes has in hand, and what it may do with action a.
LEMMA SerialTurn ==
    ASSUME IndInv, SerialInv, NEW o \in Operator, NEW a \in Action, Turn(o, a),
           NEW st \in {"EXECUTED", "FAILED"}
    PROVE  LET f == op[o].frame
               g == Recorded(o, a, st)
           IN  /\ TypeOK /\ SerialExecution(op[o]) /\ Remembers(f)
               /\ ~op[o].live => Remembers(disk)
               /\ crashes = 0 => listed = disk.state
               /\ f \in Frame /\ g \in Frame
               /\ g.state = f.state /\ g.executed = f.executed /\ StatusesFollow(g)
               /\ \A b \in Action : /\ b # a => g.action[b] = f.action[b]
                                    /\ f.action[b] = "EXECUTED" => g.action[b] = "EXECUTED"
<1> DEFINE f == op[o].frame
           g == Recorded(o, a, st)
<1>1. op[o].pc = "execute" /\ a \in op[o].todo /\ TypeOK /\ Serial(op[o])
  BY DEF Turn, IndInv, SerialInv
<1>2. /\ SerialExecution(op[o]) /\ Remembers(f)
      /\ ~op[o].live => Remembers(disk)
      /\ crashes = 0 => listed = disk.state
  BY <1>1 DEF Serial
<1>3. f \in Frame /\ op[o].via \in {"command", "cli", "ui"} /\ StatusesFollow(f)
  BY <1>1, <1>2 DEF TypeOK, Process, SerialExecution
<1>4. CASE op[o].via = "ui"
  BY <1>1, <1>2, <1>3, <1>4 DEF Recorded
<1>5. CASE op[o].via # "ui"
  <2>1. f.action[a] = "APPROVED" /\ disk.action[a] = "APPROVED"
    BY <1>1, <1>2, <1>5 DEF SerialExecution
  <2>2. st \in PENDING_ACTION_STATUSES
    BY DEF PENDING_ACTION_STATUSES
  <2>3. /\ g \in Frame /\ g.state = f.state /\ g.executed = f.executed
        /\ \A b \in Action : g.action[b] = IF b = a THEN st ELSE f.action[b]
    BY <1>3, <1>5, <2>2 DEF Recorded, With, Frame
  <2> HIDE DEF f, g
  <2>4. StatusesFollow(g)
    BY <1>3, <2>1, <2>3, SuccessorFacts DEF StatusesFollow
  <2> QED
    BY <1>1, <1>2, <1>3, <2>1, <2>3, <2>4 DEF f, g
<1> QED
  BY <1>4, <1>5

\* The copy a failure leaves ends the frame.
LEMMA SerialFailed ==
    ASSUME IndInv, SerialInv, NEW o \in Operator, NEW a \in Action, Turn(o, a)
    PROVE  LET h == Failed(o, a) IN
             /\ h \in Frame /\ h.state = "FAILED_EXECUTION" /\ StatusesFollow(h)
             /\ h.executed = op[o].frame.executed
             /\ h.action = Recorded(o, a, "FAILED").action
<1> DEFINE g == Recorded(o, a, "FAILED")
<1>1. g \in Frame /\ StatusesFollow(g) /\ g.executed = op[o].frame.executed
  BY SerialTurn
<1>2. Failed(o, a) = [g EXCEPT !.state = "FAILED_EXECUTION", !.error = TRUE]
  BY DEF Failed
<1>3. "FAILED_EXECUTION" \in TASKFRAME_STATES
  BY DEF TASKFRAME_STATES
<1> HIDE DEF g
<1>4. LET h == Failed(o, a) IN
        /\ h \in Frame /\ h.state = "FAILED_EXECUTION"
        /\ h.action = g.action /\ h.executed = g.executed
  BY <1>1, <1>2, <1>3 DEF Frame
<1> QED
  BY <1>1, <1>4 DEF StatusesFollow, g

\* A process that is not a dry run of the CLI executes in a frame that has not ended.
LEMMA SerialNotEnded ==
    ASSUME IndInv, SerialInv, NEW o \in Operator, NEW a \in Action, Turn(o, a),
           \/ op[o].via # "cli" \/ op[o].live
           \/ op[o].frame.state \in Executable
    PROVE  disk.state \notin FinalStates
<1>1. SerialExecution(op[o]) /\ op[o].via \in {"command", "cli", "ui"}
  BY SerialTurn DEF IndInv, TypeOK, Process
<1>2. CASE op[o].via = "command"
  BY <1>1, <1>2, NotFinal DEF SerialExecution
<1>3. CASE op[o].via # "command"
  BY <1>1, <1>3, NotFinal DEF SerialExecution
<1> QED
  BY <1>2, <1>3

LEMMA SerialRefuse ==
    ASSUME OneOperator, IndInv, SerialInv, NEW o \in Operator, NEW a \in Action, Refuse(o, a)
    PROVE  SerialInv'
<1>1. Turn(o, a) /\ TypeOK /\ UNCHANGED <<called, calls>>
  BY DEF Refuse, IndInv
<1>2. LET f == op[o].frame
          g == Recorded(o, a, "FAILED")
      IN  /\ SerialExecution(op[o]) /\ Remembers(f)
          /\ crashes = 0 => listed = disk.state
          /\ f \in Frame
          /\ \A b \in Action : f.action[b] = "EXECUTED" => g.action[b] = "EXECUTED"
  BY <1>1, SerialTurn
<1> DEFINE h == Failed(o, a)
<1>3. /\ h \in Frame /\ h.state = "FAILED_EXECUTION" /\ StatusesFollow(h)
      /\ h.executed = op[o].frame.executed
      /\ h.action = Recorded(o, a, "FAILED").action
  BY <1>1, SerialFailed
<1> HIDE DEF h
<1>4. CASE /\ op[o].via = "cli" /\ ~op[o].live => SafeToExecute(op[o].frame, a)
           /\ Becomes(o, Saving(h, "idle"))
  <2>1. disk.state \notin FinalStates
    BY <1>1, <1>4, SerialNotEnded DEF SafeToExecute
  <2>2. Remembers(h)
    BY <1>3, NotFinal DEF Remembers, Spent
  <2>3. Serial(Saving(h, "idle"))
    BY <1>2, <1>3, <2>1, <2>2, SavingIsSerial
  <2> QED
    BY <1>1, <1>4, <2>3, BecomesSerial
<1>5. CASE /\ op[o].via = "cli"
           /\ Becomes(o, Saving([h EXCEPT !.state = op[o].frame.state], "idle"))
  <2> DEFINE k == [h EXCEPT !.state = op[o].frame.state]
  <2>1. /\ k.state = op[o].frame.state /\ k.action = h.action /\ k.executed = h.executed
    BY <1>3 DEF Frame
  <2>2. op[o].frame.state = disk.state
    BY <1>2, <1>5 DEF SerialExecution
  <2> HIDE DEF k
  <2>3. StatusesFollow(k)
    BY <1>3, <2>1 DEF StatusesFollow
  <2>4. Remembers(k)
    BY <1>2, <1>3, <2>1, StillRemembers
  <2>5. Serial(Saving(k, "idle"))
    BY <1>2, <2>1, <2>2, <2>3, <2>4, SavingIsSerial
  <2> QED
    BY <1>1, <1>5, <2>5, BecomesSerial DEF k
<1> QED
  BY <1>4, <1>5 DEF Refuse, h

\* A live call is the first of its effect but for what crashes have lost.
LEMMA SerialCall ==
    ASSUME IndInv, SerialInv, NEW o \in Operator, NEW a \in Action, Turn(o, a),
           SafeToExecute(op[o].frame, a),
           IF op[o].live THEN CallLive(a) ELSE UNCHANGED <<called, calls>>,
           UNCHANGED <<manifest, crashes>>
    PROVE  /\ RepeatedByCrashesOnly'
           /\ \A b \in called' : calls'[manifest.effect[b]] > 0
           /\ \A e \in Action : e # manifest.effect[a] \/ ~op[o].live => calls'[e] = calls[e]
<1>1. /\ TypeOK /\ RepeatedByCrashesOnly
      /\ \A b \in called : calls[manifest.effect[b]] > 0
      /\ Remembers(op[o].frame)
  BY SerialTurn DEF SerialInv
<1>2. /\ crashes \in Nat /\ MaxCalls \in Nat \ {0}
      /\ \A e \in Action : calls[e] \in 0..MaxCalls
      /\ DOMAIN calls = Action
      /\ \A b \in Action : manifest.effect[b] \in Action
      /\ called \subseteq Action
  BY <1>1, ApprovalStoreAssumption DEF TypeOK, Manifest
<1>3. CASE ~op[o].live
  BY <1>1, <1>3 DEF RepeatedByCrashesOnly
<1>4. CASE op[o].live
  <2> DEFINE e == manifest.effect[a]
  <2>1. e \in Action /\ calls[e] \in 0..MaxCalls
    BY <1>2
  <2>2. ~Spent(op[o].frame, e)
    BY NotFinal DEF SafeToExecute, Duplicates, Spent, Shows
  <2>3. calls[e] <= crashes
    BY <1>1, <1>2, <2>1, <2>2 DEF Remembers
  <2>4. /\ called' = called \cup {a}
        /\ calls' = [calls EXCEPT ![e] = IF @ < MaxCalls THEN @ + 1 ELSE @]
    BY <1>4 DEF CallLive
  <2> HIDE DEF e
  <2>5. /\ calls'[e] = IF calls[e] < MaxCalls THEN calls[e] + 1 ELSE calls[e]
        /\ \A d \in Action : d # e => calls'[d] = calls[d]
    BY <1>2, <2>1, <2>4
  <2>6. calls'[e] > 0 /\ calls'[e] <= 1 + crashes
    BY <1>2, <2>1, <2>3, <2>5
  <2>7. \A d \in Action : calls'[d] <= 1 + crashes'
    BY <1>1, <2>5, <2>6 DEF RepeatedByCrashesOnly
  <2>8. \A b \in called' : calls'[manifest.effect[b]] > 0
    BY <1>1, <1>2, <2>4, <2>5, <2>6 DEF e
  <2> QED
    BY <2>5, <2>7, <2>8 DEF RepeatedByCrashesOnly, e
<1> QED
  BY <1>3, <1>4

\* The process becomes another one after the call; what it holds shows the effect.
LEMMA CalledSerial ==
    ASSUME OneOperator, IndInv, SerialInv, NEW o \in Operator, NEW a \in Action, Turn(o, a),
           SafeToExecute(op[o].frame, a),
           IF op[o].live THEN CallLive(a) ELSE UNCHANGED <<called, calls>>,
           NEW p, Becomes(o, p), Serial(p), p.pc \in {"execute", "write"},
           Spent(p.frame, manifest.effect[a]),
           p.pc = "execute" => p.live = op[o].live
    PROVE  SerialInv'
<1>1. UNCHANGED <<manifest, disk, temp, listed, crashes>>
  BY DEF Becomes
<1>2. \A q \in Operator : op'[q] = p
  BY DEF OneOperator, Becomes, IndInv, TypeOK
<1>3. /\ RepeatedByCrashesOnly'
      /\ \A b \in called' : calls'[manifest.effect[b]] > 0
      /\ \A e \in Action : e # manifest.effect[a] \/ ~op[o].live => calls'[e] = calls[e]
  BY <1>1, SerialCall
<1>4. \A e \in Action : calls'[e] > crashes => Spent(p.frame, e)
  BY <1>3 DEF Serial, Remembers
<1>5. p.pc = "execute" /\ ~p.live => \A e \in Action : calls'[e] > crashes => Spent(disk, e)
  BY <1>3 DEF Serial, Remembers
<1>6. \A q \in Operator : Serial(op[q])'
  <2>1. p.pc # "idle"
    OBVIOUS
  <2> QED
    BY <1>1, <1>2, <1>4, <1>5, <2>1
       DEF Serial, SerialExecution, Remembers, Spent, Shows, StatusesFollow
<1> QED
  BY <1>1, <1>3, <1>6 DEF SerialInv

LEMMA SerialPerform ==
    ASSUME OneOperator, IndInv, SerialInv, NEW o \in Operator, NEW a \in Action, Perform(o, a)
    PROVE  SerialInv'
<1> DEFINE r == Recorded(o, a, "EXECUTED")
           f == Logged(r, a)
           e == manifest.effect[a]
<1>1. /\ Turn(o, a) /\ SafeToExecute(op[o].frame, a)
      /\ op[o].frame.state \in Executable
      /\ IF op[o].live THEN CallLive(a) ELSE UNCHANGED <<called, calls>>
  BY DEF Perform, SafeToExecute
<1>2. /\ SerialExecution(op[o]) /\ Remembers(op[o].frame)
      /\ ~op[o].live => Remembers(disk)
      /\ crashes = 0 => listed = disk.state
      /\ r \in Frame /\ r.state = op[o].frame.state
      /\ r.executed = op[o].frame.executed /\ StatusesFollow(r)
      /\ \A b \in Action : /\ b # a => r.action[b] = op[o].frame.action[b]
                           /\ op[o].frame.action[b] = "EXECUTED" => r.action[b] = "EXECUTED"
  BY <1>1, SerialTurn
<1>3. /\ f \in Frame /\ f.state = r.state /\ f.action = r.action
      /\ f.executed = r.executed \cup {a}
  BY <1>2 DEF Logged, Frame
<1>4. op[o] \in Process /\ op[o].pc = "execute" /\ Serial(op[o])
  BY <1>1 DEF Turn, IndInv, TypeOK, SerialInv
<1>5. disk.state \notin FinalStates
  BY <1>1, SerialNotEnded
<1> HIDE DEF r, f
<1>6. StatusesFollow(f) /\ Remembers(f) /\ Shows(f, e)
  <2>1. Remembers(f)
    BY <1>2, <1>3, StillRemembers
  <2> QED
    BY <1>2, <1>3, <2>1 DEF StatusesFollow, Shows
<1>7. CASE /\ op[o].via = "command"
           /\ Becomes(o, [op[o] EXCEPT !.frame = f, !.todo = @ \ {a}])
  <2> DEFINE p == [op[o] EXCEPT !.frame = f, !.todo = @ \ {a}]
  <2>1. /\ p.pc = "execute" /\ p.frame = f /\ p.via = "command" /\ p.next = op[o].next
        /\ p.live = op[o].live /\ p.todo = op[o].todo \ {a}
    <3> DEFINE q == op[o]
    <3>1. q \in Process /\ q.pc = "execute"
      BY <1>4
    <3>2. q.via = "command" /\ p = [q EXCEPT !.frame = f, !.todo = q.todo \ {a}]
      BY <1>7
    <3> HIDE DEF q, p
    <3>3. /\ p.pc = "execute" /\ p.frame = f /\ p.via = "command" /\ p.next = q.next
          /\ p.live = q.live /\ p.todo = q.todo \ {a}
      BY <3>1, <3>2 DEF Process
    <3> QED
      BY <3>3 DEF q
  <2> HIDE DEF p
  <2>2. p.todo \subseteq Action
    BY <1>4, <2>1 DEF Process
  <2>3. \A b \in p.todo : p.frame.action[b] = "APPROVED" /\ disk.action[b] = "APPROVED"
    BY <1>2, <1>3, <1>7, <2>1, <2>2 DEF SerialExecution
  <2>4. /\ disk.state = "WAITING_FOR_EXECUTE" /\ p.frame.state = "EXECUTING_PENDING"
    BY <1>2, <1>3, <1>7, <2>1 DEF SerialExecution
  <2>5. SerialExecution(p)
    BY <1>6, <2>1, <2>3, <2>4 DEF SerialExecution
  <2>6. op[o].next # "execute"
    BY <1>2, <1>4, <1>7 DEF SerialExecution, Serial
  <2>7. Serial(p)
    BY <1>2, <1>4, <1>6, <2>1, <2>5, <2>6 DEF Serial
  <2>8. Spent(p.frame, e) /\ Becomes(o, p)
    BY <1>6, <1>7, <2>1 DEF Spent, p
  <2> QED
    BY <1>1, <2>1, <2>7, <2>8, CalledSerial
<1>8. CASE Becomes(o, Saving([f EXCEPT !.state = "FAILED_EXECUTION"], "idle"))
  <2> DEFINE k == [f EXCEPT !.state = "FAILED_EXECUTION"]
  <2>1. k.state = "FAILED_EXECUTION" /\ k.action = f.action
    BY <1>3 DEF Frame
  <2> HIDE DEF k
  <2>2. StatusesFollow(k) /\ Remembers(k) /\ Spent(k, e)
    BY <1>6, <2>1, NotFinal DEF StatusesFollow, Remembers, Spent
  <2>3. Serial(Saving(k, "idle"))
    BY <1>2, <1>5, <2>2, SavingIsSerial
  <2>4. Saving(k, "idle").pc = "write" /\ Saving(k, "idle").frame = k
    BY SavingFields
  <2> QED
    BY <1>1, <1>8, <2>2, <2>3, <2>4, CalledSerial DEF k
<1>9. CASE Becomes(o, Saving(f, "idle"))
  <2>1. Serial(Saving(f, "idle"))
    BY <1>2, <1>5, <1>6, SavingIsSerial
  <2>2. Saving(f, "idle").pc = "write" /\ Saving(f, "idle").frame = f
    BY SavingFields
  <2> QED
    BY <1>1, <1>6, <1>9, <2>1, <2>2, CalledSerial DEF Spent
<1> QED
  BY <1>7, <1>8, <1>9 DEF Perform, r, f

LEMMA SerialFailLive ==
    ASSUME OneOperator, IndInv, SerialInv, NEW o \in Operator, NEW a \in Action, FailLive(o, a)
    PROVE  SerialInv'
<1> DEFINE h == Failed(o, a)
<1>1. /\ Turn(o, a) /\ SafeToExecute(op[o].frame, a) /\ op[o].live /\ CallLive(a)
      /\ Becomes(o, Saving(h, "idle"))
  BY DEF FailLive
<1>2. crashes = 0 => listed = disk.state
  BY <1>1, SerialTurn
<1>3. h.state = "FAILED_EXECUTION" /\ StatusesFollow(h)
  BY <1>1, SerialFailed
<1>4. disk.state \notin FinalStates
  BY <1>1, SerialNotEnded
<1> HIDE DEF h
<1>5. Remembers(h) /\ Spent(h, manifest.effect[a])
  BY <1>3, NotFinal DEF Remembers, Spent
<1>6. Serial(Saving(h, "idle"))
  BY <1>2, <1>3, <1>4, <1>5, SavingIsSerial
<1>7. Saving(h, "idle").pc = "write" /\ Saving(h, "idle").frame = h
  BY SavingFields
<1> QED
  BY <1>1, <1>5, <1>6, <1>7, CalledSerial

LEMMA SerialVerify ==
    ASSUME OneOperator, IndInv, SerialInv, NEW o \in Operator, Verify(o)
    PROVE  SerialInv'
<1> DEFINE f == op[o].frame
           ended(st) == [op[o].frame EXCEPT !.state = st]
<1>1. /\ op[o].pc = "execute" /\ op[o].todo = {} /\ UNCHANGED <<called, calls>>
      /\ TypeOK /\ Serial(op[o]) /\ f \in Frame
  BY DEF Verify, IndInv, SerialInv, TypeOK, Process
<1>2. /\ SerialExecution(op[o]) /\ Remembers(f)
      /\ ~op[o].live => Remembers(disk)
      /\ crashes = 0 => listed = disk.state
  BY <1>1 DEF Serial
<1>3. /\ disk.state = "WAITING_FOR_EXECUTE" /\ f.state = "EXECUTING_PENDING"
      /\ StatusesFollow(f)
  BY <1>1, <1>2 DEF SerialExecution
<1>4. ASSUME NEW st, NEW next \in {"again", "idle"}, Becomes(o, Saving(ended(st), next))
      PROVE  SerialInv'
  <2> DEFINE g == ended(st)
  <2>1. g.action = f.action /\ g.executed = f.executed
    BY <1>1 DEF Frame
  <2>2. Serial(Saving(g, next))
    <3> HIDE DEF g
    <3>1. StatusesFollow(g)
      BY <1>3, <2>1 DEF StatusesFollow
    <3>2. Remembers(g)
      BY <1>2, <1>3, <2>1, NotFinal, StillRemembers
    <3> QED
      BY <1>2, <1>3, <3>1, <3>2, NotFinal, SavingIsSerial
  <2> QED
    BY <1>1, <1>4, <2>2, BecomesSerial
<1>5. CASE ~op[o].live /\ Becomes(o, IdleProcess)
  <2>1. Serial(IdleProcess)
    BY <1>2, <1>5, IdleIsSerial
  <2> QED
    BY <1>1, <1>5, <2>1, BecomesSerial
<1> QED
  BY <1>4, <1>5 DEF Verify

\* A step of the only process, which calls no tool and does not crash.
LEMMA StepIsSerial ==
    ASSUME OneOperator, IndInv, SerialInv, NEW o \in Operator, NEW p,
           op' = [op EXCEPT ![o] = p], Serial(p)',
           UNCHANGED <<manifest, called, calls, crashes>>
    PROVE  SerialInv'
<1>1. \A q \in Operator : op'[q] = p
  BY DEF OneOperator, IndInv, TypeOK
<1>2. \A q \in Operator : Serial(op[q])'
  BY <1>1 DEF Serial, SerialExecution
<1> QED
  BY <1>2 DEF SerialInv, RepeatedByCrashesOnly

\* The files follow the save.
LEMMA SerialWriteTemp ==
    ASSUME OneOperator, IndInv, SerialInv, NEW o \in Operator, WriteTemp(o)
    PROVE  SerialInv'
<1>1. PICK q \in Process : q = op[o]
  BY DEF IndInv, TypeOK
<1>2. PICK p : p = [q EXCEPT !.pc = "replace"]
  OBVIOUS
<1>3. /\ q.pc = "write" /\ Serial(q) /\ temp' = q.frame
      /\ op' = [op EXCEPT ![o] = p]
      /\ UNCHANGED <<manifest, disk, listed, called, calls, crashes>>
  BY <1>1, <1>2 DEF WriteTemp, SerialInv
<1>4. p.pc = "replace" /\ p.frame = q.frame /\ p.next = q.next
  BY <1>2 DEF Process
<1>5. Serial(p)'
  BY <1>3, <1>4 DEF Serial, Remembers, Spent, Shows, StatusesFollow
<1> QED
  BY <1>3, <1>5, StepIsSerial

LEMMA SerialReplace ==
    ASSUME OneOperator, IndInv, SerialInv, NEW o \in Operator, Replace(o)
    PROVE  SerialInv'
<1>1. PICK q \in Process : q = op[o]
  BY DEF IndInv, TypeOK
<1>2. PICK p : p = [q EXCEPT !.pc = "clean"]
  OBVIOUS
<1>3. q.pc = "replace" /\ Serial(q) /\ temp = q.frame
  BY <1>1 DEF Replace, SerialInv, Serial
<1>4. temp # NoFrame
  <2>1. temp.state \in TASKFRAME_STATES
    BY <1>3 DEF Process, Frame
  <2> QED
    BY <2>1 DEF NoFrame, TASKFRAME_STATES
<1>5. /\ disk' = temp /\ op' = [op EXCEPT ![o] = p]
      /\ UNCHANGED <<manifest, listed, called, calls, crashes>>
  BY <1>1, <1>2, <1>4 DEF Replace, Taken
<1>6. p.pc = "clean" /\ p.frame = q.frame /\ p.next = q.next
  BY <1>2 DEF Process
<1>7. Serial(p)'
  BY <1>3, <1>5, <1>6 DEF Serial, Remembers, Spent, Shows
<1> QED
  BY <1>5, <1>7, StepIsSerial

LEMMA SerialClean ==
    ASSUME OneOperator, IndInv, SerialInv, NEW o \in Operator, Clean(o)
    PROVE  SerialInv'
<1>1. PICK q \in Process : q = op[o]
  BY DEF IndInv, TypeOK
<1>2. PICK p : p = [q EXCEPT !.pc = "report"]
  OBVIOUS
<1>3. q.pc = "clean" /\ Serial(q) /\ q.next # "raise"
  BY <1>1 DEF Clean, SerialInv, Serial
<1>4. /\ op' = [op EXCEPT ![o] = p]
      /\ UNCHANGED <<manifest, disk, listed, called, calls, crashes>>
  BY <1>1, <1>2, <1>3 DEF Clean
<1>5. p.pc = "report" /\ p.frame = q.frame /\ p.next = q.next
  BY <1>2 DEF Process
<1>6. Serial(p)'
  BY <1>3, <1>4, <1>5 DEF Serial, Remembers, Spent, Shows
<1> QED
  BY <1>4, <1>6, StepIsSerial

LEMMA SerialReport ==
    ASSUME OneOperator, IndInv, SerialInv, NEW o \in Operator, Report(o)
    PROVE  SerialInv'
<1>1. PICK q \in Process : q = op[o]
  BY DEF IndInv, TypeOK
<1>2. PICK f \in Frame : f = q.frame
  BY DEF Process
<1>3. PICK p : p = AfterSave(q)
  OBVIOUS
<1>4. /\ q.pc = "report" /\ Serial(q) /\ disk = f
      /\ listed' = f.state /\ disk' = f /\ op' = [op EXCEPT ![o] = p]
      /\ UNCHANGED <<manifest, called, calls, crashes>>
  BY <1>1, <1>2, <1>3 DEF Report, Reported, SerialInv, Serial
<1>5. Remembers(f) /\ (q.next = "execute" => f.state = "WAITING_FOR_EXECUTE")
  BY <1>2, <1>4 DEF Serial
<1>6. Remembers(f)'
  BY <1>4, <1>5 DEF Remembers, Spent, Shows
<1>7. StatusesFollow(f)'
  BY <1>4, SuccessorFacts DEF StatusesFollow, Frame
<1>8. CASE q.next = "execute"
  <2>1. p = Executing(f, FALSE) /\ f.state = "WAITING_FOR_EXECUTE"
    BY <1>2, <1>3, <1>5, <1>8 DEF AfterSave
  <2>2. /\ p.pc = "execute" /\ p.live = FALSE /\ p.via = "command" /\ p.next = "idle"
        /\ p.todo = ToExecute(f)
        /\ p.frame.state = "EXECUTING_PENDING"
        /\ p.frame.action = f.action /\ p.frame.executed = f.executed
    BY <1>2, <2>1 DEF Executing, IdleProcess, Frame
  <2>3. StatusesFollow(p.frame)' /\ Remembers(p.frame)'
    BY <1>6, <1>7, <2>1, <2>2, NotFinal DEF StatusesFollow, Remembers, Spent, Shows
  <2>4. \A a \in p.todo : f.action[a] = "APPROVED"
    BY <2>2 DEF ToExecute, ActionsWith
  <2>5. SerialExecution(p)'
    BY <1>4, <2>1, <2>2, <2>3, <2>4 DEF SerialExecution
  <2>6. Serial(p)'
    BY <1>4, <1>6, <2>2, <2>3, <2>5 DEF Serial
  <2> QED
    BY <1>4, <2>6, StepIsSerial
<1>9. CASE q.next = "again"
  <2>1. p = Saving(f, "idle")
    BY <1>2, <1>3, <1>9 DEF AfterSave
  <2>2. p.pc = "write" /\ p.frame = f /\ p.next = "idle"
    BY <2>1, SavingFields
  <2>3. Serial(p)'
    BY <1>4, <1>6, <1>7, <2>2 DEF Serial
  <2> QED
    BY <1>4, <2>3, StepIsSerial
<1>10. CASE q.next \notin {"execute", "again"}
  <2>1. p = IdleProcess
    BY <1>3, <1>10 DEF AfterSave
  <2>2. p.pc = "idle" /\ p.next = "idle"
    BY <2>1 DEF IdleProcess
  <2>3. Serial(p)'
    BY <1>4, <1>6, <2>2 DEF Serial
  <2> QED
    BY <1>4, <2>3, StepIsSerial
<1> QED
  BY <1>8, <1>9, <1>10

\* A crash forgives one more repetition of every effect.
LEMMA SerialCrash ==
    ASSUME OneOperator, IndInv, SerialInv, NEW o \in Operator, Crash(o)
    PROVE  SerialInv'
<1>1. /\ crashes' = crashes + 1 /\ op' = [op EXCEPT ![o] = IdleProcess]
      /\ UNCHANGED <<manifest, disk, listed, called, calls>>
  BY DEF Crash
<1>2. crashes \in Nat /\ \A e \in Action : calls[e] \in Nat
  BY ApprovalStoreAssumption DEF IndInv, TypeOK
<1>3. \A e \in Action : calls[e] <= 1 + crashes
  BY DEF SerialInv, RepeatedByCrashesOnly
<1>4. \A e \in Action : ~(calls'[e] > crashes') /\ calls'[e] <= 1 + crashes'
  BY <1>1, <1>2, <1>3
<1>5. crashes' # 0
  BY <1>1, <1>2
<1>6. \A q \in Operator : op'[q] = IdleProcess
  BY <1>1 DEF OneOperator, IndInv, TypeOK
<1>7. IdleProcess.pc = "idle" /\ IdleProcess.next = "idle"
  BY DEF IdleProcess
<1>8. Remembers(disk)'
  BY <1>4 DEF Remembers
<1>9. \A q \in Operator : Serial(op[q])'
  BY <1>5, <1>6, <1>7, <1>8 DEF Serial
<1>10. (\A a \in called : calls[manifest.effect[a]] > 0)'
  BY <1>1 DEF SerialInv
<1> QED
  BY <1>4, <1>9, <1>10 DEF SerialInv, RepeatedByCrashesOnly

LEMMA SerialNext ==
    ASSUME OneOperator, IndInv, SerialInv, [Next]_vars
    PROVE  SerialInv'
<1>1. ASSUME NEW o \in Operator, Command(o) PROVE SerialInv'
  BY <1>1, SerialCommand
<1>2. ASSUME NEW o \in Operator, Progress(o) PROVE SerialInv'
  BY <1>2, SerialRefuse, SerialPerform, SerialFailLive, SerialVerify, SerialWriteTemp,
     SerialReplace, SerialClean, SerialReport DEF Progress
<1>3. ASSUME NEW o \in Operator, Crash(o) PROVE SerialInv'
  BY <1>3, SerialCrash
<1>4. CASE UNCHANGED vars
  BY <1>4 DEF vars, SerialInv, RepeatedByCrashesOnly, Serial, SerialExecution, Remembers,
              Spent, Shows, StatusesFollow
<1> QED
  BY <1>1, <1>2, <1>3, <1>4 DEF Next

(***************************************************************************)
(* Theorems.                                                                *)
(***************************************************************************)

\* The invariant holds of every run: every copy of the frame, in a file or in
\* a process, is sound, and what may be called was approved.
THEOREM InvariantCorrect == Spec => []IndInv
BY InvInit, InvNext, PTL DEF Spec

\* Type correctness of the persisted frame, its temporary file and its processes.
THEOREM TypeCorrect == Spec => []TypeOK
<1>1. IndInv => TypeOK
  BY DEF IndInv
<1> QED
  BY <1>1, InvariantCorrect, PTL

\* However many operators give commands on a frame at once, and wherever they
\* crash, a live tool is called only for an action that was approved.
THEOREM OnlyApprovedIsCalled == Spec => []CalledWasApproved
<1>1. IndInv => CalledWasApproved
  BY DEF IndInv
<1> QED
  BY <1>1, InvariantCorrect, PTL

\* A frame that taskframe.json shows as COMPLETED has executed what its contract
\* asks for, although commands save over each other.
THEOREM CompletedCorrect == Spec => []CompletedOnDisk
<1>1. IndInv => CompletedOnDisk
  BY DEF IndInv, Savable, Sound, CompletedOnDisk
<1> QED
  BY <1>1, InvariantCorrect, PTL

\* No crash and no race leaves a frame EXECUTING_PENDING in taskframe.json.
THEOREM NeverSavedMidExecution == Spec => []NeverMidExecution
<1>1. IndInv => NeverMidExecution
  BY DEF IndInv, Savable, NeverMidExecution
<1> QED
  BY <1>1, InvariantCorrect, PTL

\* One operator: whatever is saved or in hand remembers the calls that no crash has lost,
\* a save follows the frame on disk, and the listing tells its state.
THEOREM SerialCorrect ==
    ASSUME OneOperator
    PROVE  Spec => []SerialInv
<1>1. Init => IndInv /\ SerialInv
  BY InvInit, SerialInit
<1>2. IndInv /\ SerialInv /\ [Next]_vars => IndInv' /\ SerialInv'
  BY InvNext, SerialNext
<1> QED
  BY <1>1, <1>2, PTL DEF Spec

\* One operator: an effect is called live again only after a crash, and at most once for
\* every crash, whichever interfaces the commands are given to.
THEOREM RepeatedByCrashesCorrect ==
    ASSUME OneOperator
    PROVE  Spec => []RepeatedByCrashesOnly
<1>1. SerialInv => RepeatedByCrashesOnly
  BY DEF SerialInv
<1> QED
  BY <1>1, SerialCorrect, PTL

\* One operator: between two commands, when no process has crashed, summary.json and the
\* run ledger tell the frame's own state.
THEOREM ListingCorrect ==
    ASSUME OneOperator
    PROVE  Spec => []ListingAgrees
<1>1. SerialInv => ListingAgrees
  BY DEF OneOperator, SerialInv, Serial, Idle, ListingAgrees
<1> QED
  BY <1>1, SerialCorrect, PTL

\* One operator: the assessment of a frame one of whose tools was called live is never to
\* resume or to retry it, unless a crash has lost the record.
THEOREM AdviceCorrect ==
    ASSUME OneOperator
    PROVE  Spec => []AdviceIsSafe
<1>1. ASSUME IndInv, SerialInv, crashes = 0, \A o \in Operator : Idle(o),
             NEW c \in Circumstances,
             AssessRecovery(disk, c) \in {"resumable", "retryable"}, NEW a \in called
      PROVE  FALSE
  <2> DEFINE e == manifest.effect[a]
  <2>1. a \in Action /\ e \in Action /\ disk \in Frame
    BY <1>1, ApprovalStoreAssumption DEF IndInv, TypeOK, Manifest
  <2>2. calls[e] > 0 /\ Remembers(disk)
    BY <1>1 DEF OneOperator, SerialInv, Serial, Idle
  <2>3. Spent(disk, e)
    BY <1>1, <2>1, <2>2 DEF Remembers
  <2>4. \/ disk.state \in {"RUNNING", "WAITING_FOR_EXECUTE"} /\ CanResume(disk, c)
        \/ CanRetry(disk, c)
    BY <1>1 DEF AssessRecovery
  <2>5. CASE disk.state \in {"RUNNING", "WAITING_FOR_EXECUTE"} /\ CanResume(disk, c)
    <3>1. Shows(disk, e)
      BY <2>3, <2>5, NotFinal DEF Spent, FinalStates, SuccessStates, FailureStates
    <3>2. PICK b \in Action : b \in disk.executed \/ disk.action[b] = "EXECUTED"
      BY <3>1 DEF Shows
    <3>3. b \in disk.executed
      BY <1>1, <3>2 DEF IndInv, Savable, Sound, ActionsWith
    <3> QED
      BY <2>5, <3>3 DEF CanResume, DuplicateSideEffectRisk
  \* An action has an effect of its own, whatever became of it.
  <2>6. CASE CanRetry(disk, c)
    <3>1. SideEffectRisk(disk) = "none"
      BY <2>6 DEF CanRetry
    <3>2. EffectOf(disk, a) \in {"executed", "staged", "unknown"}
      BY DEF EffectOf
    <3> QED
      BY <2>1, <3>1, <3>2 DEF SideEffectRisk
  <2> QED
    BY <2>4, <2>5, <2>6
<1>2. IndInv /\ SerialInv => AdviceIsSafe
  BY <1>1 DEF AdviceIsSafe
<1> QED
  BY <1>2, InvariantCorrect, SerialCorrect, PTL

\* One operator: a save leaves the state of a frame that has ended, and moves the status of
\* every action along its life cycle.
THEOREM LifeCycleCorrect ==
    ASSUME OneOperator
    PROVE  Spec => LifeCycle
<1> DEFINE Follows == /\ disk.state \in FinalStates => disk'.state = disk.state
                      /\ \A a \in Action : disk'.action[a] \in Successors(disk.action[a])
<1>1. SerialInv /\ [Next]_vars => [Follows]_disk
  <2> SUFFICES ASSUME SerialInv, [Next]_vars, disk' # disk PROVE Follows
    BY DEF LifeCycle
  <2>1. PICK o \in Operator : Command(o) \/ Progress(o) \/ Crash(o)
    BY DEF Next, vars
  <2>2. ~Command(o)
    BY DEF Command, Approve, Reject, ApproveAndExecute, ExecuteOne, ExecuteShown, ApproveAll,
           ExecuteApproved, Refresh, Becomes
  <2>3. ~Crash(o)
    BY DEF Crash
  <2>4. ASSUME NEW a \in Action PROVE ~Refuse(o, a) /\ ~Perform(o, a) /\ ~FailLive(o, a)
    BY DEF Refuse, Perform, FailLive, Becomes
  <2>5. ~Verify(o) /\ ~WriteTemp(o) /\ ~Clean(o) /\ ~Report(o)
    BY DEF Verify, WriteTemp, Clean, Report, Becomes
  <2>6. Replace(o)
    BY <2>1, <2>2, <2>3, <2>4, <2>5 DEF Progress
  <2>7. op[o].pc = "replace" /\ disk' = temp /\ Serial(op[o])
    BY <2>6 DEF Replace, SerialInv
  <2>8. /\ disk.state \in FinalStates => disk'.state = disk.state
        /\ StatusesFollow(disk')
    BY <2>7 DEF Serial
  <2> QED
    BY <2>8 DEF StatusesFollow
<1> HIDE DEF Follows
<1>2. Spec => [][Follows]_disk
  BY <1>1, SerialCorrect, PTL DEF Spec
<1> QED
  BY <1>2 DEF LifeCycle, Follows
=============================================================================
