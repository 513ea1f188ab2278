----------------------------- MODULE IntakeProofs -----------------------------
(***************************************************************************)
(* Proofs about EventIntake, for every number of workers, events, replays,  *)
(* crashes and exceptions: the links between the files and the store are    *)
(* never wrong, and no frame is run twice, although nothing locks the       *)
(* files; and, for one worker, every lost frame and every unsettled event   *)
(* is one of a crash or an exception.                                       *)
(***************************************************************************)
EXTENDS EventIntake, FiniteSetTheorems, TLAPS

(***************************************************************************)
(* Facts about the helpers.                                                 *)
(***************************************************************************)

FrameRecord == [event : Id, state : FrameStates]

\* Frames are only added, and keep the event they were created for.
FramesGrow ==
    /\ frames' \in Seq(FrameRecord)
    /\ \A f \in DOMAIN frames : f \in DOMAIN frames' /\ frames'[f].event = frames[f].event

\* A record without links.
LEMMA RecordType ==
    ASSUME NEW status \in QueueStatuses, NEW frame \in Nat
    PROVE  /\ Record(status, frame) \in QueueRecord
           /\ Record(status, frame).frame = frame /\ Record(status, frame).replay = 0
           /\ Record(status, frame).status = status
BY EventIntakeAssumption DEF Record, QueueRecord

LEMMA RecordLinks ==
    ASSUME NEW status \in QueueStatuses, NEW frame \in Nat, NEW id \in Id, Links(frames, frame, id)
    PROVE  LinkedRecord(frames, Record(status, frame), id)
<1>1. Record(status, frame).frame = frame /\ Record(status, frame).replay = 0
  BY RecordType
<1> QED
  BY <1>1 DEF LinkedRecord, LinksReplay

LEMMA AbsentLinks == Absent \in QueueRecord /\ \A id \in Id : LinkedRecord(frames, Absent, id)
<1>1. "ABSENT" \in QueueStatuses
  BY DEF QueueStatuses
<1>2. \A id \in Id : Links(frames, 0, id)
  BY DEF Links
<1> QED
  BY <1>1, <1>2, RecordType, RecordLinks DEF Absent

LEMMA EmptyFiles ==
    /\ NoIndex \in [Id -> IndexEntry] /\ NoQueue \in [Id -> QueueRecord]
    /\ \A id \in Id : LinkedEntry(frames, NoIndex[id], id) /\ LinkedRecord(frames, NoQueue[id], id)
BY AbsentLinks DEF NoIndex, NoQueue, NotSeen, IndexEntry, LinkedEntry, Links, Absent

\* The id of an event and of its replays.
LEMMA OriginalId == \A id \in Id : <<id[1], 0>> \in Id /\ <<id[1], 0>>[1] = id[1]
BY EventIntakeAssumption DEF Id

LEMMA IdleHolds ==
    IdleProcess \in Process /\ Holds(frames, IdleProcess) /\ ~WillRun(IdleProcess)
    /\ IdleProcess.held = Absent /\ IdleProcess.frame = 0
<1>1. AnyId \in Id
  <2>1. AnyId \in Event \X {0}
    <3>1. PICK e \in Event : TRUE
      BY EventIntakeAssumption
    <3>2. <<e, 0>> \in Event \X {0}
      OBVIOUS
    <3> DEFINE S == Event \X {0}
    <3>3. \E id \in S : TRUE
      BY <3>2
    <3> HIDE DEF S
    <3>4. (CHOOSE id \in S : TRUE) \in S
      BY <3>3
    <3> QED
      BY <3>4 DEF S, AnyId
  <2> QED
    BY <2>1, EventIntakeAssumption DEF Id
<1>2. IdleProcess \in Process
  <2>1. Absent \in QueueRecord /\ NoIndex \in [Id -> IndexEntry] /\ NoQueue \in [Id -> QueueRecord]
    BY AbsentLinks, EmptyFiles
  <2> QED
    BY <1>1, <2>1 DEF IdleProcess, Process
<1>3. Links(frames, 0, AnyId)
  BY DEF Links
<1>4. Holds(frames, IdleProcess)
  <2>1. /\ IdleProcess.id = AnyId /\ IdleProcess.frame = 0 /\ IdleProcess.record = Absent
        /\ IdleProcess.held = Absent
        /\ IdleProcess.pc = "idle" /\ IdleProcess.after = "idle"
        /\ IdleProcess.indexCopy = NoIndex /\ IdleProcess.queueCopy = NoQueue
    BY DEF IdleProcess
  <2> QED
    BY <1>1, <1>3, <2>1, AbsentLinks, EmptyFiles, OriginalId DEF Holds
<1> QED
  BY <1>2, <1>4 DEF IdleProcess, WillRun

\* A process that is about to write a queue record.
LEMMA ThenQueueHolds ==
    ASSUME NEW p \in Process, Holds(frames, p),
           NEW record \in QueueRecord, LinkedRecord(frames, record, p.id),
           NEW after \in {"idle", "check", "map", "run", "return"}
    PROVE  LET q == ThenQueue(p, record, after) IN
             q \in Process /\ Holds(frames, q) /\ (after # "run" => ~WillRun(q)) /\ q.frame = p.frame
<1> DEFINE q == ThenQueue(p, record, after)
<1>1. /\ q \in Process
      /\ q.pc = "readQueue" /\ q.record = record /\ q.after = after
      /\ q.id = p.id /\ q.frame = p.frame /\ q.held = p.held
      /\ q.indexCopy = p.indexCopy /\ q.queueCopy = p.queueCopy
  BY DEF ThenQueue, Process
<1> QED
  BY <1>1 DEF Holds, WillRun

\* A process that is about to write both files.
LEMMA ThenBothHolds ==
    ASSUME NEW p \in Process, Holds(frames, p),
           NEW frame \in Nat, Links(frames, frame, p.id),
           NEW record \in QueueRecord, LinkedRecord(frames, record, p.id),
           NEW after \in {"idle", "check", "requeue", "map", "run", "return"},
           after = "requeue" => record.status = "DUPLICATE_EVENT"
    PROVE  LET q == ThenBoth(p, frame, record, after) IN
             q \in Process /\ Holds(frames, q) /\ (after # "run" => ~WillRun(q)) /\ q.frame = frame
<1> DEFINE q == ThenBoth(p, frame, record, after)
<1>1. /\ q \in Process
      /\ q.pc = "readIndex" /\ q.record = record /\ q.after = after
      /\ q.id = p.id /\ q.frame = frame /\ q.held = p.held
      /\ q.indexCopy = p.indexCopy /\ q.queueCopy = p.queueCopy
  BY DEF ThenBoth, Process
<1> QED
  BY <1>1 DEF Holds, WillRun

\* What links keeps linking while frames grow.
LEMMA LinksGrow ==
    ASSUME FramesGrow, NEW f, NEW id
    PROVE  /\ Links(frames, f, id) => Links(frames', f, id)
           /\ LinksReplay(frames, f, id) => LinksReplay(frames', f, id)
BY DEF FramesGrow, Links, LinksReplay

LEMMA RecordGrow ==
    ASSUME FramesGrow, NEW r, NEW id
    PROVE  (LinkedEntry(frames, r, id) => LinkedEntry(frames', r, id))
           /\ (LinkedRecord(frames, r, id) => LinkedRecord(frames', r, id))
BY LinksGrow DEF LinkedEntry, LinkedRecord

LEMMA HoldsGrow ==
    ASSUME FramesGrow, NEW p, Holds(frames, p)
    PROVE  Holds(frames', p)
<1>1. Links(frames', p.frame, p.id)
  BY LinksGrow DEF Holds
<1>2. LinkedRecord(frames', p.record, p.id) /\ LinkedRecord(frames', p.held, <<p.id[1], 0>>)
  BY RecordGrow DEF Holds
<1>3. \A id \in Id : /\ LinkedEntry(frames', p.indexCopy[id], id)
                      /\ LinkedRecord(frames', p.queueCopy[id], id)
  BY RecordGrow DEF Holds
<1> QED
  BY <1>1, <1>2, <1>3 DEF Holds

\* Frames that stay the same have grown.
LEMMA SameFramesGrow == TypeOK /\ UNCHANGED frames => FramesGrow
BY DEF TypeOK, FramesGrow, FrameRecord

(***************************************************************************)
(* The inductive invariant.                                                 *)
(***************************************************************************)

LEMMA InvInit == Init => IndInv
<1> SUFFICES ASSUME Init PROVE IndInv
  OBVIOUS
<1>1. TypeOK
  BY EventIntakeAssumption, IdleHolds, EmptyFiles DEF Init, TypeOK
<1>2. LinksExist
  BY EmptyFiles DEF Init, LinksExist
<1>3. \A w \in Worker : Holds(frames, op[w]) /\ OwnsFrame(w)
  BY IdleHolds DEF Init, OwnsFrame
<1> QED
  BY <1>1, <1>2, <1>3 DEF IndInv

\* One process becomes p; a frame it will run is new, or was already its own.
LEMMA StepInv ==
    ASSUME IndInv, NEW w \in Worker, NEW p \in Process,
           op' = [op EXCEPT ![w] = p],
           FramesGrow, Holds(frames', p),
           index' \in [Id -> IndexEntry], queue' \in [Id -> QueueRecord], LinksExist',
           ledger' \subseteq Id, torn' \subseteq {"index", "queue"},
           commands' \in Nat, crashes' \in Nat, raised' \in Nat,
           WillRun(p) => /\ p.frame \in DOMAIN frames'
                         /\ frames'[p.frame].state = "CREATED"
                         /\ \/ p.frame \notin DOMAIN frames
                            \/ WillRun(op[w]) /\ p.frame = op[w].frame,
           \A v \in Worker \ {w} : WillRun(op[v]) =>
               frames'[op[v].frame].state = frames[op[v].frame].state
    PROVE  IndInv'
<1>1. TypeOK'
  BY DEF IndInv, TypeOK, FramesGrow, FrameRecord
<1>2. \A v \in Worker : op'[v] = IF v = w THEN p ELSE op[v]
  BY DEF IndInv, TypeOK
<1>3. ASSUME NEW v \in Worker PROVE Holds(frames', op'[v])
  <2>1. CASE v = w
    BY <1>2, <2>1
  <2>2. CASE v # w
    <3>1. op'[v] = op[v] /\ Holds(frames, op[v])
      BY <1>2, <2>2 DEF IndInv
    <3> QED
      BY <3>1, HoldsGrow
  <2> QED
    BY <2>1, <2>2
<1>4. \A v \in Worker : WillRun(op[v]) =>
         /\ op[v].frame \in DOMAIN frames /\ frames[op[v].frame].state = "CREATED"
         /\ \A u \in Worker \ {v} : WillRun(op[u]) => op[u].frame # op[v].frame
  BY DEF IndInv, OwnsFrame
<1>5. ASSUME NEW v \in Worker, WillRun(op'[v])
      PROVE  /\ op'[v].frame \in DOMAIN frames' /\ frames'[op'[v].frame].state = "CREATED"
             /\ \A u \in Worker \ {v} : WillRun(op'[u]) => op'[u].frame # op'[v].frame
  <2>1. CASE v = w
    <3>1. op'[v] = p
      BY <1>2, <2>1
    <3>2. ASSUME NEW u \in Worker \ {v}, WillRun(op'[u]) PROVE op'[u].frame # p.frame
      <4>1. op'[u] = op[u] /\ op[u].frame \in DOMAIN frames
        BY <1>2, <1>4, <2>1, <3>2
      <4> QED
        BY <1>4, <1>5, <2>1, <3>1, <3>2, <4>1
    <3> QED
      BY <1>5, <3>1, <3>2
  <2>2. CASE v # w
    <3>1. op'[v] = op[v] /\ WillRun(op[v])
      BY <1>2, <1>5, <2>2
    <3>2. op[v].frame \in DOMAIN frames' /\ frames'[op[v].frame].state = "CREATED"
      BY <1>4, <2>2, <3>1 DEF FramesGrow
    <3>3. ASSUME NEW u \in Worker \ {v}, WillRun(op'[u]) PROVE op'[u].frame # op[v].frame
      <4>1. CASE u = w
        <5>1. op'[u] = p /\ op[v].frame \in DOMAIN frames
          BY <1>2, <1>4, <3>1, <4>1
        <5>2. WillRun(op[w]) => op[v].frame # op[w].frame
          BY <1>4, <2>2, <3>1
        <5> QED
          BY <3>3, <5>1, <5>2
      <4>2. CASE u # w
        BY <1>2, <1>4, <3>1, <3>3, <4>2
      <4> QED
        BY <4>1, <4>2
    <3> QED
      BY <3>1, <3>2, <3>3
  <2> QED
    BY <2>1, <2>2
<1>6. ASSUME NEW v \in Worker PROVE OwnsFrame(v)'
  BY <1>5 DEF OwnsFrame, WillRun
<1> QED
  BY <1>1, <1>3, <1>6 DEF IndInv

\* The same for the steps that touch neither the store nor an index.
LEMMA LocalInv ==
    ASSUME IndInv, NEW w \in Worker, NEW p \in Process, Becomes(w, p),
           UNCHANGED <<frames, index, queue>>,
           ledger' \subseteq Id, torn' \subseteq {"index", "queue"},
           commands' \in Nat, crashes' \in Nat, raised' \in Nat,
           Holds(frames, p), WillRun(p) => WillRun(op[w]) /\ p.frame = op[w].frame
    PROVE  IndInv'
<1>1. FramesGrow
  BY SameFramesGrow DEF IndInv
<1>2. Holds(frames', p)
  BY <1>1, HoldsGrow
<1>3. LinksExist'
  BY DEF IndInv, LinksExist, LinkedEntry, LinkedRecord, Links, LinksReplay
<1>4. WillRun(op[w]) => op[w].frame \in DOMAIN frames /\ frames[op[w].frame].state = "CREATED"
  BY DEF IndInv, OwnsFrame
<1> QED
  BY <1>1, <1>2, <1>3, <1>4, StepInv DEF IndInv, TypeOK, Becomes

\* What the invariant says about the process of a worker.
LEMMA Mine ==
    ASSUME IndInv, NEW w \in Worker
    PROVE  op[w] \in Process /\ Holds(frames, op[w])
BY DEF IndInv, TypeOK

\* A process that only moves to another place, or gets a verdict.
LEMMA MoveHolds ==
    ASSUME NEW p \in Process, Holds(frames, p), NEW q \in Process,
           q.id = p.id, q.frame = p.frame, q.record = p.record, q.held = p.held,
           q.after = p.after, q.indexCopy = p.indexCopy, q.queueCopy = p.queueCopy,
           q.pc # "requeue"
    PROVE  Holds(frames, q)
BY DEF Holds

LEMMA ReadQueueInv ==
    ASSUME IndInv, NEW w \in Worker, ReadQueue(w)
    PROVE  IndInv'
<1> DEFINE copy == IF "queue" \in torn THEN NoQueue ELSE queue
           p == [op[w] EXCEPT !.pc = "openQueue", !.queueCopy = copy]
<1>1. copy \in [Id -> QueueRecord] /\ \A id \in Id : LinkedRecord(frames, copy[id], id)
  BY EmptyFiles DEF IndInv, TypeOK, LinksExist
<1>2. /\ p \in Process /\ p.pc = "openQueue" /\ p.frame = op[w].frame /\ p.record = op[w].record
      /\ p.id = op[w].id /\ p.held = op[w].held /\ p.after = op[w].after
      /\ p.indexCopy = op[w].indexCopy /\ p.queueCopy = copy
  BY <1>1, Mine DEF Process
<1>3. Holds(frames, p)
  BY <1>1, <1>2, Mine DEF Holds
<1>4. WillRun(p) => WillRun(op[w])
  BY <1>2 DEF WillRun, ReadQueue, At
<1> QED
  BY <1>2, <1>3, <1>4, LocalInv DEF ReadQueue, IndInv, TypeOK

LEMMA OpenInv ==
    ASSUME IndInv, NEW w \in Worker, OpenQueue(w) \/ OpenIndex(w)
    PROVE  IndInv'
<1>1. PICK pc \in {"dumpQueue", "dumpIndex"} :
         /\ Becomes(w, [op[w] EXCEPT !.pc = pc])
         /\ op[w].pc = IF pc = "dumpQueue" THEN "openQueue" ELSE "openIndex"
         /\ torn' \subseteq {"index", "queue"}
         /\ UNCHANGED <<frames, ledger, index, queue, commands, crashes, raised>>
  BY DEF OpenQueue, OpenIndex, At, IndInv, TypeOK
<1> DEFINE p == [op[w] EXCEPT !.pc = pc]
<1>2. op[w] \in Process /\ Holds(frames, op[w])
  BY Mine
<1>3. /\ p \in Process /\ p.pc = pc /\ p.frame = op[w].frame /\ p.after = op[w].after
      /\ p.id = op[w].id /\ p.record = op[w].record /\ p.held = op[w].held
      /\ p.indexCopy = op[w].indexCopy /\ p.queueCopy = op[w].queueCopy
  BY <1>2 DEF Process
<1>4. Holds(frames, p)
  BY <1>2, <1>3, MoveHolds
<1>5. WillRun(p) => WillRun(op[w])
  BY <1>1, <1>3 DEF WillRun
<1> HIDE DEF p
<1> QED
  BY <1>1, <1>3, <1>4, <1>5, LocalInv DEF IndInv, TypeOK, p

LEMMA TornType ==
    ASSUME TypeOK, NEW file \in {"index", "queue"}, torn' \in TornAfter(file)
    PROVE  torn' \subseteq {"index", "queue"}
BY DEF TypeOK, TornAfter

LEMMA DumpQueueInv ==
    ASSUME IndInv, NEW w \in Worker, DumpQueue(w)
    PROVE  IndInv'
<1> DEFINE p == IF op[w].after = "idle" THEN IdleProcess
                ELSE [op[w] EXCEPT !.pc = op[w].after, !.queueCopy = NoQueue]
<1>1. FramesGrow /\ UNCHANGED <<frames, ledger, index, commands, crashes, raised>>
      /\ op' = [op EXCEPT ![w] = p]
  BY SameFramesGrow DEF DumpQueue, Becomes, IndInv
<1>2. op[w] \in Process /\ Holds(frames, op[w])
  BY Mine
<1>3. queue' \in [Id -> QueueRecord] /\ \A id \in Id : LinkedRecord(frames, queue'[id], id)
  BY <1>2 DEF DumpQueue, QueueWritten, Process, Holds
<1>4. LinksExist'
  <2>1. \A id \in Id : LinkedEntry(frames, index'[id], id) /\ LinkedRecord(frames, queue'[id], id)
    BY <1>1, <1>3 DEF IndInv, LinksExist
  <2> QED
    BY <1>1, <2>1 DEF LinksExist, LinkedEntry, LinkedRecord, Links, LinksReplay
<1>5. p \in Process /\ Holds(frames, p) /\ (WillRun(p) => WillRun(op[w]) /\ p.frame = op[w].frame)
  <2>1. CASE op[w].after = "idle"
    BY <2>1, IdleHolds
  <2>2. CASE op[w].after # "idle"
    <3>1. /\ p \in Process /\ p.pc = op[w].after /\ p.frame = op[w].frame /\ p.record = op[w].record
          /\ p.id = op[w].id /\ p.held = op[w].held /\ p.after = op[w].after
          /\ p.indexCopy = op[w].indexCopy /\ p.queueCopy = NoQueue
      BY <1>2, <2>2, EmptyFiles DEF Process
    <3>2. Holds(frames, p)
      BY <1>2, <3>1, EmptyFiles DEF Holds
    <3>3. WillRun(p) => WillRun(op[w])
      BY <1>2, <3>1 DEF WillRun, DumpQueue, At
    <3> QED
      BY <3>1, <3>2, <3>3
  <2> QED
    BY <2>1, <2>2
<1>6. Holds(frames', p)
  BY <1>1, <1>5, HoldsGrow
<1>7. torn' \subseteq {"index", "queue"}
  BY TornType DEF DumpQueue, IndInv
<1>8. WillRun(op[w]) => op[w].frame \in DOMAIN frames /\ frames[op[w].frame].state = "CREATED"
  BY DEF IndInv, OwnsFrame
<1> HIDE DEF p
<1> QED
  BY <1>1, <1>3, <1>4, <1>5, <1>6, <1>7, <1>8, StepInv DEF IndInv, TypeOK

LEMMA DumpIndexInv ==
    ASSUME IndInv, NEW w \in Worker, DumpIndex(w)
    PROVE  IndInv'
<1> DEFINE pc == IF op[w].after = "requeue" THEN "requeue" ELSE "readQueue"
           p == [op[w] EXCEPT !.pc = pc, !.indexCopy = NoIndex]
<1>1. FramesGrow /\ UNCHANGED <<frames, ledger, queue, commands, crashes, raised>>
      /\ op' = [op EXCEPT ![w] = p]
  BY SameFramesGrow DEF DumpIndex, Becomes, IndInv
<1>2. op[w] \in Process /\ Holds(frames, op[w])
  BY Mine
<1>3. index' \in [Id -> IndexEntry] /\ \A id \in Id : LinkedEntry(frames, index'[id], id)
  BY <1>2 DEF DumpIndex, IndexWritten, Process, Holds, IndexEntry, LinkedEntry
<1>4. LinksExist'
  <2>1. \A id \in Id : LinkedEntry(frames, index'[id], id) /\ LinkedRecord(frames, queue'[id], id)
    BY <1>1, <1>3 DEF IndInv, LinksExist
  <2> QED
    BY <1>1, <2>1 DEF LinksExist, LinkedEntry, LinkedRecord, Links, LinksReplay
<1>5. /\ p \in Process /\ p.pc = pc /\ p.frame = op[w].frame /\ p.record = op[w].record
      /\ p.id = op[w].id /\ p.held = op[w].held /\ p.after = op[w].after
      /\ p.indexCopy = NoIndex /\ p.queueCopy = op[w].queueCopy
  BY <1>2, EmptyFiles DEF Process
<1>6. Holds(frames, p)
  BY <1>2, <1>5, EmptyFiles DEF Holds
<1>7. WillRun(p) => WillRun(op[w])
  BY <1>5 DEF WillRun, DumpIndex, At
<1>8. Holds(frames', p)
  BY <1>1, <1>6, HoldsGrow
<1>9. torn' \subseteq {"index", "queue"}
  BY TornType DEF DumpIndex, IndInv
<1>10. WillRun(op[w]) => op[w].frame \in DOMAIN frames /\ frames[op[w].frame].state = "CREATED"
  BY DEF IndInv, OwnsFrame
<1> HIDE DEF p
<1> QED
  BY <1>1, <1>3, <1>4, <1>5, <1>7, <1>8, <1>9, <1>10, StepInv DEF IndInv, TypeOK
\* The statuses intake_event() writes without a frame.
LEMMA FramelessRecord ==
    ASSUME NEW status \in QueueStatuses, NEW id \in Id
    PROVE  /\ Record(status, 0) \in QueueRecord /\ Record(status, 0).status = status
           /\ LinkedRecord(frames, Record(status, 0), id) /\ Links(frames, 0, id)
<1>1. Links(frames, 0, id)
  BY DEF Links
<1> QED
  BY <1>1, RecordType, RecordLinks

LEMMA FailedRecordLinks ==
    /\ FailedRecord \in QueueRecord /\ FailedRecord.status = "FAILED_EXECUTION"
    /\ \A id \in Id : LinkedRecord(frames, FailedRecord, id) /\ Links(frames, 0, id)
<1>1. "FAILED_EXECUTION" \in QueueStatuses
  BY DEF QueueStatuses
<1>2. FailedRecord \in QueueRecord /\ FailedRecord.status = "FAILED_EXECUTION"
  BY <1>1, RecordType DEF FailedRecord
<1> QED
  BY <1>1, <1>2, FramelessRecord DEF FailedRecord

\* A process that ends the intake with a failure, in both files or in the queue.
LEMMA FailedHolds ==
    ASSUME NEW p \in Process, Holds(frames, p)
    PROVE  /\ LET q == ThenBoth(p, 0, FailedRecord, "return") IN
                q \in Process /\ Holds(frames, q) /\ ~WillRun(q)
           /\ LET q == ThenQueue(p, FailedRecord, "return") IN
                q \in Process /\ Holds(frames, q) /\ ~WillRun(q)
<1>1. p.id \in Id
  BY DEF Process
<1>2. /\ FailedRecord \in QueueRecord /\ FailedRecord.status = "FAILED_EXECUTION"
      /\ LinkedRecord(frames, FailedRecord, p.id) /\ Links(frames, 0, p.id) /\ 0 \in Nat
  BY <1>1, FailedRecordLinks
<1> QED
  BY <1>2, ThenBothHolds, ThenQueueHolds

LEMMA OkHolds ==
    ASSUME NEW p \in Process, Holds(frames, p), NEW ok \in BOOLEAN
    PROVE  LET q == [p EXCEPT !.ok = ok] IN
             q \in Process /\ Holds(frames, q) /\ q.id = p.id /\ q.run = p.run
<1> DEFINE q == [p EXCEPT !.ok = ok]
<1>1. /\ q \in Process /\ q.pc = p.pc /\ q.record = p.record /\ q.after = p.after
      /\ q.id = p.id /\ q.frame = p.frame /\ q.held = p.held /\ q.run = p.run
      /\ q.indexCopy = p.indexCopy /\ q.queueCopy = p.queueCopy
  BY DEF Process
<1> QED
  BY <1>1 DEF Holds

LEMMA LogType ==
    ASSUME IndInv, NEW w \in Worker, Logged(w) \/ UNCHANGED ledger
    PROVE  ledger' \subseteq Id
<1>1. op[w].id \in Id
  BY Mine DEF Process
<1> QED
  BY <1>1 DEF Logged, IndInv, TypeOK

\* An exception: the process has no frame any more, or writes that it has none.
LEMMA ThrownHolds ==
    ASSUME NEW p \in Process, Holds(frames, p)
    PROVE  Thrown(p) \in Process /\ Holds(frames, Thrown(p)) /\ ~WillRun(Thrown(p))
<1> DEFINE q == [p EXCEPT !.ok = FALSE, !.indexCopy = NoIndex, !.queueCopy = NoQueue]
           r == [q EXCEPT !.pc = "return", !.frame = 0]
<1>1. /\ q \in Process /\ q.pc = p.pc /\ q.record = p.record /\ q.after = p.after
      /\ q.id = p.id /\ q.frame = p.frame /\ q.held = p.held
      /\ q.indexCopy = NoIndex /\ q.queueCopy = NoQueue
  BY EmptyFiles DEF Process
<1>2. Holds(frames, q)
  BY <1>1, EmptyFiles DEF Holds
<1> HIDE DEF q
<1>3. /\ r \in Process /\ r.pc = "return" /\ r.record = q.record /\ r.after = q.after
      /\ r.id = q.id /\ r.frame = 0 /\ r.held = q.held
      /\ r.indexCopy = q.indexCopy /\ r.queueCopy = q.queueCopy
  BY <1>1 DEF Process
<1> HIDE DEF r
<1>4. Holds(frames, r) /\ ~WillRun(r)
  BY <1>2, <1>3 DEF Holds, Links, WillRun
<1>5. CASE InTry(p)
  BY <1>1, <1>2, <1>5, FailedHolds DEF Thrown, q
<1>6. CASE ~InTry(p)
  BY <1>3, <1>4, <1>6 DEF Thrown, q, r
<1> QED
  BY <1>5, <1>6

LEMMA ThrowInv ==
    ASSUME IndInv, NEW w \in Worker, Throw(w),
           UNCHANGED <<frames, index, queue, torn, commands, crashes>>, raised' \in Nat
    PROVE  IndInv'
<1>1. ledger' \subseteq Id
  BY LogType DEF Throw
<1>2. Thrown(op[w]) \in Process /\ Holds(frames, Thrown(op[w])) /\ ~WillRun(Thrown(op[w]))
  BY Mine, ThrownHolds
<1> QED
  BY <1>1, <1>2, LocalInv DEF Throw, IndInv, TypeOK

LEMMA RaisesInv ==
    ASSUME IndInv, NEW w \in Worker, Raises(w)
    PROVE  IndInv'
BY ThrowInv DEF Raises, IndInv, TypeOK

LEMMA ReadIndexInv ==
    ASSUME IndInv, NEW w \in Worker, ReadIndex(w)
    PROVE  IndInv'
<1>1. op[w] \in Process /\ Holds(frames, op[w]) /\ ledger' \subseteq Id
  BY Mine, LogType DEF ReadIndex, Throw
<1>2. CASE "index" \notin torn
  <2> DEFINE p == [op[w] EXCEPT !.pc = "openIndex", !.indexCopy = index]
  <2>1. /\ p \in Process /\ p.pc = "openIndex" /\ p.frame = op[w].frame /\ p.record = op[w].record
        /\ p.id = op[w].id /\ p.held = op[w].held /\ p.after = op[w].after
        /\ p.indexCopy = index /\ p.queueCopy = op[w].queueCopy
    BY <1>1 DEF Process, IndInv, TypeOK
  <2>2. Holds(frames, p)
    BY <1>1, <2>1 DEF Holds, IndInv, LinksExist
  <2>3. WillRun(p) => WillRun(op[w])
    BY <2>1 DEF WillRun, ReadIndex, At
  <2> QED
    BY <1>1, <1>2, <2>1, <2>2, <2>3, LocalInv DEF ReadIndex, IndInv, TypeOK
<1>3. CASE "index" \in torn
  BY <1>3, ThrowInv DEF ReadIndex, IndInv, TypeOK
<1> QED
  BY <1>2, <1>3

LEMMA BeginHolds ==
    ASSUME NEW id \in Id, NEW run \in BOOLEAN, NEW held \in QueueRecord,
           LinkedRecord(frames, held, <<id[1], 0>>),
           held # Absent => id[2] > 0 /\ held.attempts < MaxReplays
    PROVE  LET p == Begin(id, run, held) IN p \in Process /\ Holds(frames, p) /\ ~WillRun(p)
<1> DEFINE p == [IdleProcess EXCEPT !.id = id, !.run = run, !.held = held]
<1>1. "RECEIVED" \in QueueStatuses
  BY DEF QueueStatuses
<1>2. IdleProcess \in Process
  BY IdleHolds
<1>3. /\ p \in Process /\ p.pc = "idle" /\ p.after = "idle" /\ p.frame = 0 /\ p.id = id /\ p.held = held
      /\ p.record = Absent /\ p.indexCopy = NoIndex /\ p.queueCopy = NoQueue
  BY <1>2 DEF IdleProcess, Process
<1>4. Links(frames, 0, id)
  BY DEF Links
<1>5. Holds(frames, p)
  BY <1>3, <1>4, AbsentLinks, EmptyFiles DEF Holds
<1>6. Record("RECEIVED", 0) \in QueueRecord /\ LinkedRecord(frames, Record("RECEIVED", 0), p.id)
  BY <1>1, <1>3, FramelessRecord
<1> HIDE DEF p
<1> QED
  BY <1>3, <1>5, <1>6, ThenQueueHolds DEF Begin, p

LEMMA DeliverInv ==
    ASSUME IndInv, NEW w \in Worker, NEW e \in Event, Deliver(w, e)
    PROVE  IndInv'
<1>1. PICK run \in BOOLEAN : Becomes(w, Begin(<<e, 0>>, run, Absent))
  BY DEF Deliver
<1>2. <<e, 0>> \in Id /\ <<<<e, 0>>[1], 0>> \in Id
  BY EventIntakeAssumption DEF Id
<1>3. Begin(<<e, 0>>, run, Absent) \in Process /\ Holds(frames, Begin(<<e, 0>>, run, Absent))
      /\ ~WillRun(Begin(<<e, 0>>, run, Absent))
  BY <1>2, AbsentLinks, BeginHolds
<1> QED
  BY <1>1, <1>3, LocalInv DEF Deliver, IndInv, TypeOK

\* The queue record of an event, when the queue can be read.
LEMMA LoadedLinks ==
    ASSUME IndInv, NEW id \in Id
    PROVE  Loaded(id) \in QueueRecord /\ LinkedRecord(frames, Loaded(id), id)
BY AbsentLinks DEF Loaded, IndInv, TypeOK, LinksExist
LEMMA RefuseInv ==
    ASSUME IndInv, NEW w \in Worker, Invalid(w) \/ Unmappable(w)
    PROVE  IndInv'
<1> DEFINE p == ThenQueue(op[w], FailedRecord, "return")
           q == ThenBoth(op[w], 0, FailedRecord, "return")
<1>1. p \in Process /\ Holds(frames, p) /\ ~WillRun(p)
      /\ q \in Process /\ Holds(frames, q) /\ ~WillRun(q)
  BY Mine, FailedHolds
<1>2. /\ Becomes(w, p) \/ Becomes(w, q)
      /\ Logged(w) /\ UNCHANGED <<frames, index, queue, torn, commands, crashes, raised>>
  BY DEF Invalid, Unmappable
<1>3. ledger' \subseteq Id
  BY <1>2, LogType
<1> HIDE DEF p, q
<1> QED
  BY <1>1, <1>2, <1>3, LocalInv DEF IndInv, TypeOK

LEMMA CheckInv ==
    ASSUME IndInv, NEW w \in Worker, Check(w)
    PROVE  IndInv'
<1>1. CASE "index" \in torn
  BY <1>1, ThrowInv DEF Check, IndInv, TypeOK
<1>2. CASE "index" \notin torn
  <2>1. PICK pc \in {"duplicate", "route"} : Becomes(w, [op[w] EXCEPT !.pc = pc])
    BY <1>2 DEF Check
  <2> DEFINE p == [op[w] EXCEPT !.pc = pc]
  <2>2. op[w] \in Process /\ Holds(frames, op[w])
    BY Mine
  <2>3. /\ p \in Process /\ p.pc = pc /\ p.frame = op[w].frame /\ p.after = op[w].after
        /\ p.id = op[w].id /\ p.record = op[w].record /\ p.held = op[w].held
        /\ p.indexCopy = op[w].indexCopy /\ p.queueCopy = op[w].queueCopy
    BY <2>2 DEF Process
  <2>4. Holds(frames, p)
    BY <2>2, <2>3, MoveHolds
  <2>5. ~WillRun(p)
    BY <2>3 DEF WillRun
  <2> QED
    BY <1>2, <2>1, <2>3, <2>4, <2>5, LocalInv DEF Check, IndInv, TypeOK
<1> QED
  BY <1>1, <1>2

LEMMA DuplicateInv ==
    ASSUME IndInv, NEW w \in Worker, Duplicate(w)
    PROVE  IndInv'
<1>1. CASE "index" \in torn
  BY <1>1, ThrowInv DEF Duplicate, IndInv, TypeOK
<1>2. CASE "index" \notin torn
  <2> DEFINE frame == index[op[w].id].frame
             r == Record("DUPLICATE_EVENT", frame)
             p == [op[w] EXCEPT !.ok = TRUE]
             q == ThenBoth(p, frame, r, "requeue")
  <2>1. p \in Process /\ Holds(frames, p) /\ p.id = op[w].id /\ op[w].id \in Id
    BY Mine, OkHolds DEF Process
  <2>2. frame \in Nat /\ Links(frames, frame, op[w].id)
    BY <2>1 DEF IndInv, TypeOK, IndexEntry, LinksExist, LinkedEntry
  <2>3. r \in QueueRecord /\ r.status = "DUPLICATE_EVENT" /\ LinkedRecord(frames, r, op[w].id)
    BY <2>1, <2>2, RecordType, RecordLinks DEF QueueStatuses
  <2>4. Becomes(w, q) /\ Logged(w) /\ UNCHANGED <<frames, index, queue, torn, commands, crashes, raised>>
    BY <1>2 DEF Duplicate
  <2> HIDE DEF p, r, frame
  <2>5. q \in Process /\ Holds(frames, q) /\ ~WillRun(q)
    BY <2>1, <2>2, <2>3, ThenBothHolds
  <2>6. ledger' \subseteq Id
    BY <2>4, LogType
  <2> HIDE DEF q
  <2> QED
    BY <2>4, <2>5, <2>6, LocalInv DEF IndInv, TypeOK
<1> QED
  BY <1>1, <1>2

LEMMA RequeueInv ==
    ASSUME IndInv, NEW w \in Worker, Requeue(w)
    PROVE  IndInv'
<1> DEFINE existing == Loaded(op[w].id)
           r == IF existing = Absent THEN op[w].record
                ELSE [existing EXCEPT !.status = "DUPLICATE_EVENT"]
           q == ThenQueue(op[w], r, "return")
<1>1. op[w] \in Process /\ Holds(frames, op[w]) /\ op[w].id \in Id /\ op[w].record \in QueueRecord
  BY Mine DEF Process
<1>2. existing \in QueueRecord /\ LinkedRecord(frames, existing, op[w].id)
  BY <1>1, LoadedLinks
<1>3. r \in QueueRecord /\ LinkedRecord(frames, r, op[w].id)
  <2>1. CASE existing = Absent
    BY <1>1, <2>1 DEF Holds
  <2>2. CASE existing # Absent
    <3>1. r \in QueueRecord /\ r.frame = existing.frame /\ r.replay = existing.replay
      BY <1>2, <2>2 DEF QueueRecord, QueueStatuses
    <3> QED
      BY <1>2, <3>1 DEF LinkedRecord
  <2> QED
    BY <2>1, <2>2
<1>4. AfterIntake(op[w]) = "return"
  BY <1>1 DEF Requeue, At, Holds, AfterIntake
<1>5. Becomes(w, q) /\ UNCHANGED <<frames, ledger, index, queue, torn, commands, crashes, raised>>
  BY <1>4 DEF Requeue
<1> HIDE DEF r
<1>6. q \in Process /\ Holds(frames, q) /\ ~WillRun(q)
  BY <1>1, <1>3, ThenQueueHolds
<1> HIDE DEF q
<1> QED
  BY <1>5, <1>6, LocalInv DEF IndInv, TypeOK

LEMMA RouteInv ==
    ASSUME IndInv, NEW w \in Worker, Route(w)
    PROVE  IndInv'
<1> DEFINE p == ThenQueue(op[w], Record("ROUTE_RESOLVED", 0), "map")
           q == ThenBoth(op[w], 0, Record("ROUTE_NOT_FOUND", 0), "return")
<1>1. op[w] \in Process /\ Holds(frames, op[w]) /\ op[w].id \in Id
  BY Mine DEF Process
<1>2. "ROUTE_RESOLVED" \in QueueStatuses /\ "ROUTE_NOT_FOUND" \in QueueStatuses
  BY DEF QueueStatuses
<1>3. /\ Record("ROUTE_RESOLVED", 0) \in QueueRecord
      /\ LinkedRecord(frames, Record("ROUTE_RESOLVED", 0), op[w].id)
      /\ Record("ROUTE_NOT_FOUND", 0) \in QueueRecord
      /\ LinkedRecord(frames, Record("ROUTE_NOT_FOUND", 0), op[w].id)
      /\ Links(frames, 0, op[w].id)
  BY <1>1, <1>2, FramelessRecord
<1>4. p \in Process /\ Holds(frames, p) /\ ~WillRun(p)
  BY <1>1, <1>3, ThenQueueHolds
<1>5. q \in Process /\ Holds(frames, q) /\ ~WillRun(q)
  BY <1>1, <1>3, ThenBothHolds
<1>6. /\ Becomes(w, p) \/ Becomes(w, q)
      /\ Logged(w) \/ UNCHANGED ledger
      /\ UNCHANGED <<frames, index, queue, torn, commands, crashes, raised>>
  BY DEF Route
<1>7. ledger' \subseteq Id
  BY <1>6, LogType
<1> HIDE DEF p, q
<1> QED
  BY <1>4, <1>5, <1>6, <1>7, LocalInv DEF IndInv, TypeOK

LEMMA SettleInv ==
    ASSUME IndInv, NEW w \in Worker, Settle(w)
    PROVE  IndInv'
<1> DEFINE existing == Loaded(op[w].id)
           st == IF op[w].ok THEN "COMPLETED" ELSE "FAILED_EXECUTION"
           r == [existing EXCEPT !.status = st, !.frame = op[w].frame]
           p == [op[w] EXCEPT !.pc = "return"]
           q == ThenQueue(op[w], r, "return")
<1>1. op[w] \in Process /\ Holds(frames, op[w]) /\ op[w].id \in Id /\ op[w].frame \in Nat
  BY Mine DEF Process
<1>2. existing \in QueueRecord /\ LinkedRecord(frames, existing, op[w].id)
  BY <1>1, LoadedLinks
<1>3. r \in QueueRecord /\ r.frame = op[w].frame /\ r.replay = existing.replay
  BY <1>1, <1>2 DEF QueueRecord, QueueStatuses
<1>4. LinkedRecord(frames, r, op[w].id)
  BY <1>1, <1>2, <1>3 DEF LinkedRecord, Holds
<1>5. p \in Process /\ Holds(frames, p) /\ p.pc = "return"
  <2>1. /\ p \in Process /\ p.pc = "return" /\ p.frame = op[w].frame /\ p.after = op[w].after
        /\ p.id = op[w].id /\ p.record = op[w].record /\ p.held = op[w].held
        /\ p.indexCopy = op[w].indexCopy /\ p.queueCopy = op[w].queueCopy
    BY <1>1 DEF Process
  <2> QED
    BY <1>1, <2>1, MoveHolds
<1>6. ~WillRun(p)
  BY <1>5 DEF WillRun
<1>7. /\ Becomes(w, p) \/ Becomes(w, q)
      /\ UNCHANGED <<frames, ledger, index, queue, torn, commands, crashes, raised>>
  BY DEF Settle
<1> HIDE DEF r, p
<1>8. q \in Process /\ Holds(frames, q) /\ ~WillRun(q)
  BY <1>1, <1>3, <1>4, ThenQueueHolds
<1> HIDE DEF q
<1> QED
  BY <1>5, <1>6, <1>7, <1>8, LocalInv DEF IndInv, TypeOK

LEMMA ReplayInv ==
    ASSUME IndInv, NEW w \in Worker, NEW e \in Event, Replay(w, e)
    PROVE  IndInv'
<1> DEFINE id == <<e, 0>>
           record == IF Loaded(id) # Absent THEN Loaded(id) ELSE Record("RECEIVED", 0)
           p == Begin(ReplayId(id, record), TRUE, record)
<1>1. id \in Id /\ id[1] = e
  BY EventIntakeAssumption DEF Id
<1>2. record \in QueueRecord /\ LinkedRecord(frames, record, id)
  <2>1. "RECEIVED" \in QueueStatuses
    BY DEF QueueStatuses
  <2> QED
    BY <1>1, <2>1, LoadedLinks, FramelessRecord
<1>3. Becomes(w, p) /\ record.attempts < MaxReplays
      /\ UNCHANGED <<frames, ledger, index, queue, torn, crashes, raised>> /\ commands' = commands + 1
  BY DEF Replay
<1> HIDE DEF record
<1>4. record.attempts \in 0..MaxReplays
  BY <1>2 DEF QueueRecord
<1>5. ReplayId(id, record) \in Id /\ ReplayId(id, record)[1] = e /\ ReplayId(id, record)[2] > 0
  BY <1>3, <1>4, EventIntakeAssumption DEF Id, ReplayId
<1>6. p \in Process /\ Holds(frames, p) /\ ~WillRun(p)
  BY <1>2, <1>3, <1>5, BeginHolds
<1> HIDE DEF p
<1> QED
  BY <1>3, <1>6, LocalInv DEF IndInv, TypeOK

LEMMA ReturnInv ==
    ASSUME IndInv, NEW w \in Worker, Return(w)
    PROVE  IndInv'
<1>1. op[w] \in Process /\ Holds(frames, op[w]) /\ op[w].id \in Id /\ op[w].held \in QueueRecord
      /\ op[w].frame \in Nat /\ op[w].ok \in BOOLEAN
  BY Mine DEF Process
<1>2. Becomes(w, AfterReturn(op[w]))
      /\ UNCHANGED <<frames, ledger, index, queue, torn, commands, crashes, raised>>
  BY DEF Return
<1>3. CASE op[w].held = Absent
  <2>1. AfterReturn(op[w]) = IdleProcess
    BY <1>3 DEF AfterReturn
  <2> QED
    BY <1>2, <2>1, IdleHolds, LocalInv DEF IndInv, TypeOK
<1>4. CASE op[w].held # Absent
  <2> DEFINE id == <<op[w].id[1], 0>>
             r == Replayed(op[w])
             p == [IdleProcess EXCEPT !.id = id]
             q == ThenQueue(p, r, "idle")
  <2>1. id \in Id /\ id[1] = op[w].id[1]
    BY <1>1, OriginalId
  <2>2. op[w].held.attempts < MaxReplays /\ op[w].id[2] > 0 /\ LinkedRecord(frames, op[w].held, id)
    BY <1>1, <1>4 DEF Holds
  <2>3. r \in QueueRecord /\ r.frame = op[w].held.frame /\ r.replay = op[w].frame
    <3> DEFINE st == IF op[w].ok THEN "REPLAYED_DRY_RUN" ELSE "REPLAY_FAILED"
    <3>1. st \in QueueStatuses
      BY DEF QueueStatuses
    <3>2. op[w].held.attempts + 1 \in 0..MaxReplays
      BY <1>1, <2>2, EventIntakeAssumption DEF QueueRecord
    <3>3. r = [op[w].held EXCEPT !.status = st, !.attempts = op[w].held.attempts + 1,
                                 !.replay = op[w].frame]
      BY <1>1 DEF Replayed, QueueRecord
    <3> HIDE DEF st, r
    <3> QED
      BY <1>1, <3>1, <3>2, <3>3 DEF QueueRecord
  <2>4. LinksReplay(frames, op[w].frame, id)
    BY <1>1, <2>1, <2>2 DEF Holds, Links, LinksReplay
  <2>5. LinkedRecord(frames, r, id)
    BY <2>2, <2>3, <2>4 DEF LinkedRecord
  <2>6. p \in Process /\ p.id = id /\ p.pc = "idle" /\ p.after = "idle" /\ p.frame = 0 /\ p.held = Absent
        /\ p.record = Absent /\ p.indexCopy = NoIndex /\ p.queueCopy = NoQueue
    BY <2>1, IdleHolds DEF IdleProcess, Process
  <2>7. Links(frames, 0, id) /\ <<id[1], 0>> \in Id
    BY <2>1, OriginalId DEF Links
  <2>8. Holds(frames, p)
    BY <2>1, <2>6, <2>7, AbsentLinks, EmptyFiles DEF Holds
  <2>9. AfterReturn(op[w]) = q
    BY <1>4 DEF AfterReturn
  <2> HIDE DEF p, r
  <2>10. q \in Process /\ Holds(frames, q) /\ ~WillRun(q)
    BY <2>3, <2>5, <2>6, <2>8, ThenQueueHolds
  <2> HIDE DEF q
  <2> QED
    BY <1>2, <2>9, <2>10, LocalInv DEF IndInv, TypeOK
<1> QED
  BY <1>3, <1>4

LEMMA CrashInv ==
    ASSUME IndInv, NEW w \in Worker, Crash(w)
    PROVE  IndInv'
BY IdleHolds, LocalInv DEF Crash, IndInv, TypeOK

\* Where the indexes do not change, their links hold as long as frames grow.
LEMMA LinksExistGrow ==
    ASSUME LinksExist, FramesGrow, UNCHANGED <<index, queue>>
    PROVE  LinksExist'
<1>1. \A id \in Id : LinkedEntry(frames', index[id], id) /\ LinkedRecord(frames', queue[id], id)
  <2>1. \A id \in Id : LinkedEntry(frames, index[id], id) /\ LinkedRecord(frames, queue[id], id)
    BY DEF LinksExist
  <2>2. \A r, id : /\ LinkedEntry(frames, r, id) => LinkedEntry(frames', r, id)
                   /\ LinkedRecord(frames, r, id) => LinkedRecord(frames', r, id)
    BY RecordGrow
  <2> QED
    BY <2>1, <2>2 DEF LinkedEntry, LinkedRecord, Links, LinksReplay
<1> QED
  BY <1>1 DEF LinksExist

LEMMA CreateFrameInv ==
    ASSUME IndInv, NEW w \in Worker, CreateFrame(w)
    PROVE  IndInv'
<1> DEFINE frame == Len(frames) + 1
           new == [event |-> op[w].id, state |-> "CREATED"]
           r == Record("FRAME_CREATED", frame)
           ok == [op[w] EXCEPT !.ok = TRUE]
           p == ThenBoth(ok, frame, r, "return")
           q == [p EXCEPT !.after = AfterIntake(p)]
<1>1. op[w] \in Process /\ Holds(frames, op[w]) /\ op[w].id \in Id
  BY Mine DEF Process
<1>2. frames \in Seq(FrameRecord) /\ new \in FrameRecord
  BY <1>1 DEF IndInv, TypeOK, FrameRecord, FrameStates
<1>3. frames' = Append(frames, new) /\ op' = [op EXCEPT ![w] = q] /\ Logged(w)
      /\ UNCHANGED <<index, queue, torn, commands, crashes, raised>>
  BY DEF CreateFrame, Becomes
<1>4. /\ frame \in Nat /\ frame \notin DOMAIN frames /\ frame \in DOMAIN frames'
      /\ frames'[frame] = new
      /\ \A f \in DOMAIN frames : f \in DOMAIN frames' /\ frames'[f] = frames[f]
      /\ frames' \in Seq(FrameRecord)
  BY <1>2, <1>3
<1>5. FramesGrow
  BY <1>4 DEF FramesGrow
<1>6. ok \in Process /\ Holds(frames', ok) /\ ok.id = op[w].id
  BY <1>1, <1>5, OkHolds, HoldsGrow
<1>7. r \in QueueRecord /\ r.frame = frame /\ r.replay = 0 /\ r.status = "FRAME_CREATED"
  BY <1>4, RecordType DEF QueueStatuses
<1>8. Links(frames', frame, op[w].id)
  BY <1>4 DEF Links
<1>9. LinkedRecord(frames', r, op[w].id)
  BY <1>7, <1>8 DEF LinkedRecord, LinksReplay, Links
<1> HIDE DEF ok, r, new, frame
<1>10. /\ p \in Process /\ p.pc = "readIndex" /\ p.record = r /\ p.frame = frame
       /\ p.id = op[w].id /\ p.held = ok.held
       /\ p.indexCopy = ok.indexCopy /\ p.queueCopy = ok.queueCopy
  BY <1>4, <1>6, <1>7 DEF ThenBoth, Process
<1>11. AfterIntake(p) \in {"run", "return"}
  BY DEF AfterIntake
<1> HIDE DEF p
<1>12. /\ q \in Process /\ q.pc = "readIndex" /\ q.record = r /\ q.frame = frame
       /\ q.after \in {"run", "return"}
       /\ q.id = op[w].id /\ q.held = ok.held
       /\ q.indexCopy = ok.indexCopy /\ q.queueCopy = ok.queueCopy
  BY <1>10, <1>11 DEF Process
<1> HIDE DEF q
<1>13. Holds(frames', q)
  BY <1>6, <1>8, <1>9, <1>12 DEF Holds, LinkedEntry, LinkedRecord, Links, LinksReplay
<1>14. frames'[q.frame].state = "CREATED"
  BY <1>4, <1>12 DEF new
<1>15. LinksExist' /\ ledger' \subseteq Id
  BY <1>3, <1>5, LinksExistGrow, LogType DEF IndInv
<1>16. \A v \in Worker \ {w} : WillRun(op[v]) => frames'[op[v].frame].state = frames[op[v].frame].state
  BY <1>4 DEF IndInv, OwnsFrame
<1> QED
  BY <1>3, <1>4, <1>5, <1>12, <1>13, <1>14, <1>15, <1>16, StepInv DEF IndInv, TypeOK

\* What running its frame does to the store.
LEMMA RunFrame ==
    ASSUME IndInv, NEW w \in Worker, Run(w)
    PROVE  /\ op[w].frame \in DOMAIN frames /\ frames[op[w].frame].state = "CREATED"
           /\ FramesGrow
           /\ \A f \in DOMAIN frames \ {op[w].frame} : frames'[f] = frames[f]
<1>1. op[w].frame \in DOMAIN frames /\ frames[op[w].frame].state = "CREATED"
  BY DEF Run, At, WillRun, IndInv, OwnsFrame
<1>2. PICK st \in FrameStates : frames' = [frames EXCEPT ![op[w].frame].state = st]
  BY DEF Run
<1>3. frames \in Seq(FrameRecord)
  BY DEF IndInv, TypeOK, FrameRecord
<1>4. /\ DOMAIN frames' = DOMAIN frames /\ DOMAIN frames = 1..Len(frames)
      /\ \A f \in DOMAIN frames \ {op[w].frame} : frames'[f] = frames[f]
      /\ frames'[op[w].frame] = [frames[op[w].frame] EXCEPT !.state = st]
  BY <1>1, <1>2, <1>3
<1>5. \A f \in DOMAIN frames : frames[f] \in FrameRecord
  BY <1>3
<1>6. \A f \in DOMAIN frames : frames'[f] \in FrameRecord /\ frames'[f].event = frames[f].event
  BY <1>1, <1>4, <1>5 DEF FrameRecord
<1>7. Len(frames) \in Nat
  BY <1>3
<1>8. frames' = [f \in 1..Len(frames) |-> frames'[f]]
  BY <1>2, <1>4
<1>9. frames' \in [1..Len(frames) -> FrameRecord]
  BY <1>4, <1>6, <1>8
<1>10. frames' \in Seq(FrameRecord)
  BY <1>7, <1>9
<1> QED
  BY <1>1, <1>4, <1>6, <1>10 DEF FramesGrow

LEMMA RunInv ==
    ASSUME IndInv, NEW w \in Worker, Run(w)
    PROVE  IndInv'
<1>1. PICK pc \in {"return", "settle"}, ok \in BOOLEAN :
          op' = [op EXCEPT ![w] = [op[w] EXCEPT !.pc = pc, !.ok = ok]]
  <2>1. PICK st \in FrameStates :
            Becomes(w, [op[w] EXCEPT !.pc = IF st = "RAISED" THEN "return" ELSE "settle",
                                     !.ok = (st = "COMPLETED")])
    BY DEF Run
  <2> DEFINE pc == IF st = "RAISED" THEN "return" ELSE "settle"
             ok == (st = "COMPLETED")
  <2>2. pc \in {"return", "settle"} /\ ok \in BOOLEAN
    OBVIOUS
  <2> QED
    BY <2>1, <2>2 DEF Becomes
<1> DEFINE p == [op[w] EXCEPT !.pc = pc, !.ok = ok]
<1>2. p \in Process /\ Holds(frames, p) /\ p.pc = pc
  <2>1. op[w] \in Process /\ Holds(frames, op[w])
    BY Mine
  <2>2. /\ p \in Process /\ p.pc = pc /\ p.frame = op[w].frame /\ p.after = op[w].after
        /\ p.id = op[w].id /\ p.record = op[w].record /\ p.held = op[w].held
        /\ p.indexCopy = op[w].indexCopy /\ p.queueCopy = op[w].queueCopy
    BY <2>1 DEF Process
  <2> QED
    BY <2>1, <2>2, MoveHolds
<1>3. ~WillRun(p)
  BY <1>2 DEF WillRun
<1>4. FramesGrow /\ \A f \in DOMAIN frames \ {op[w].frame} : frames'[f] = frames[f]
  BY RunFrame
<1> HIDE DEF p
<1>5. Holds(frames', p) /\ LinksExist'
  BY <1>2, <1>4, HoldsGrow, LinksExistGrow DEF Run, IndInv
<1>6. \A v \in Worker \ {w} : WillRun(op[v]) => op[v].frame \in DOMAIN frames \ {op[w].frame}
  BY DEF IndInv, OwnsFrame, WillRun, Run, At
<1> QED
  <2>1. op' = [op EXCEPT ![w] = p]
    BY <1>1 DEF p
  <2>2. /\ index' \in [Id -> IndexEntry] /\ queue' \in [Id -> QueueRecord] /\ ledger' \subseteq Id
        /\ torn' \subseteq {"index", "queue"} /\ commands' \in Nat /\ crashes' \in Nat /\ raised' \in Nat
    BY DEF Run, IndInv, TypeOK
  <2>3. \A v \in Worker \ {w} : WillRun(op[v]) =>
           frames'[op[v].frame].state = frames[op[v].frame].state
    BY <1>4, <1>6
  <2> QED
    BY <1>2, <1>3, <1>4, <1>5, <2>1, <2>2, <2>3, StepInv

LEMMA InvNext == IndInv /\ [Next]_vars => IndInv'
<1> SUFFICES ASSUME IndInv, [Next]_vars PROVE IndInv'
  OBVIOUS
<1>1. CASE UNCHANGED vars
  <2>1. FramesGrow /\ LinksExist'
    BY <1>1, SameFramesGrow, LinksExistGrow DEF IndInv, vars
  <2>2. TypeOK'
    BY <1>1 DEF IndInv, TypeOK, vars
  <2>3. \A w \in Worker : Holds(frames', op'[w]) /\ OwnsFrame(w)'
    <3>1. \A w \in Worker : Holds(frames, op[w]) /\ OwnsFrame(w)
      BY DEF IndInv
    <3> QED
      BY <1>1, <3>1 DEF vars, OwnsFrame, WillRun
  <2> QED
    BY <2>1, <2>2, <2>3 DEF IndInv
<1>2. ASSUME NEW w \in Worker, Command(w) PROVE IndInv'
  BY <1>2, DeliverInv, ReplayInv DEF Command
<1>3. ASSUME NEW w \in Worker, Progress(w) PROVE IndInv'
  BY <1>3, ReadQueueInv, OpenInv, DumpQueueInv, ReadIndexInv, DumpIndexInv, RefuseInv,
     CheckInv, DuplicateInv, RequeueInv, RouteInv, CreateFrameInv, RunInv, SettleInv, ReturnInv
     DEF Progress
<1>4. ASSUME NEW w \in Worker, Raises(w) \/ Crash(w) PROVE IndInv'
  BY <1>4, RaisesInv, CrashInv
<1> QED
  BY <1>1, <1>2, <1>3, <1>4 DEF Next


(***************************************************************************)
(* One worker: what is in its hands agrees with the files.                  *)
(***************************************************************************)

OneWorker == \E w \in Worker : Worker = {w}

\* What the only process satisfies, but for the counts.
Orderly(p) == SerialIndex(p) /\ SerialLinks(p) /\ SerialStatus(p)

LEMMA NoCopies ==
    /\ \A id \in Id : NoQueue[id] = Absent
    /\ \A id : Agrees(Absent, id)
    /\ Settled(Absent) /\ Absent.frame = 0
<1>1. Absent.frame = 0 /\ Absent.status = "ABSENT"
  BY DEF Absent, Record
<1>2. \A id \in Id : NoQueue[id] = Absent
  BY DEF NoQueue, Absent
<1> HIDE DEF Absent
<1> QED
  BY <1>1, <1>2 DEF Agrees, Settled

LEMMA SmallerSet ==
    ASSUME NEW S, NEW T, IsFiniteSet(S), T \subseteq S, NEW n \in Nat, Cardinality(S) <= n
    PROVE  IsFiniteSet(T) /\ Cardinality(T) <= n
<1>1. IsFiniteSet(T) /\ Cardinality(T) <= Cardinality(S)
  BY FS_Subset
<1>2. Cardinality(T) \in Nat /\ Cardinality(S) \in Nat
  BY <1>1, FS_CardinalityType
<1> QED
  BY <1>1, <1>2

LEMMA OneMore ==
    ASSUME NEW S, NEW T, NEW x, IsFiniteSet(S), T \subseteq S \cup {x},
           NEW n \in Nat, Cardinality(S) <= n
    PROVE  IsFiniteSet(T) /\ Cardinality(T) <= n + 1
<1>1. /\ IsFiniteSet(S \cup {x})
      /\ Cardinality(S \cup {x}) = IF x \in S THEN Cardinality(S) ELSE Cardinality(S) + 1
  BY FS_AddElement
<1>2. Cardinality(S) \in Nat
  BY FS_CardinalityType
<1>3. Cardinality(S \cup {x}) <= n + 1
  BY <1>1, <1>2
<1> QED
  BY <1>1, <1>3, SmallerSet

LEMMA LostFinite ==
    ASSUME IndInv
    PROVE  IsFiniteSet(Orphans) /\ \A p : IsFiniteSet(Lost(p))
<1>1. DOMAIN frames = 1..Len(frames) /\ Len(frames) \in Nat
  BY DEF IndInv, TypeOK
<1>2. IsFiniteSet(1..Len(frames))
  BY <1>1, FS_Interval
<1>3. IsFiniteSet(Orphans)
  BY <1>1, <1>2, FS_Subset DEF Orphans
<1>4. ASSUME NEW p PROVE IsFiniteSet(Lost(p))
  <2>1. Lost(p) \subseteq Orphans \cup {index[p.id].frame}
    BY DEF Lost, Dropped
  <2>2. IsFiniteSet(Orphans \cup {index[p.id].frame})
    BY <1>3, FS_AddElement
  <2> QED
    BY <2>1, <2>2, FS_Subset
<1> QED
  BY <1>3, <1>4

LEMMA FaultsType == IndInv => Faults \in Nat
BY DEF IndInv, TypeOK, Faults

\* A process that is about to write a queue record.
LEMMA ThenQueueSerial ==
    ASSUME NEW p \in Process, NEW record \in QueueRecord,
           NEW after \in {"idle", "check", "map", "return"},
           "index" \in torn => Faults # 0 /\ after # "map",
           after = "map" => ~index[p.id].seen /\ queue[p.id].frame = 0,
           after \in {"check", "map"} => record.frame = 0,
           after \in {"idle", "return"} => Settled(record),
           record.status # "FRAME_CREATED",
           Agrees(record, p.id), Agrees(p.held, <<p.id[1], 0>>),
           \A id \in Id : p.queueCopy[id] \in {queue[id], Absent}
    PROVE  LET q == ThenQueue(p, record, after) IN
             /\ Orderly(q) /\ Lost(q) = Orphans /\ q.pc = "readQueue"
             /\ Due(q) = IF after = "idle" THEN {} ELSE {p.id}
<1> DEFINE q == ThenQueue(p, record, after)
<1>1. /\ q.pc = "readQueue" /\ q.record = record /\ q.after = after
      /\ q.id = p.id /\ q.frame = p.frame /\ q.held = p.held
      /\ q.queueCopy = p.queueCopy
  BY DEF ThenQueue, Process
<1> HIDE DEF q
<1>2. SerialIndex(q)
  BY <1>1 DEF SerialIndex, Unindexed, Failing, InTry, QueueWrite, IndexWrite
<1>3. SerialLinks(q)
  BY <1>1 DEF SerialLinks, Fresh, QueueWrite, IndexWrite
<1>4. SerialStatus(q)
  BY <1>1 DEF SerialStatus, QueueWrite, IndexWrite
<1>5. Lost(q) = Orphans
  BY <1>1 DEF Lost, Pending, Dropped, Failing, IndexWrite
<1>6. Due(q) = IF after = "idle" THEN {} ELSE {p.id}
  BY <1>1 DEF Due, QueueWrite
<1> QED
  BY <1>1, <1>2, <1>3, <1>4, <1>5, <1>6 DEF Orderly, q

\* A process that is about to write both files.
LEMMA ThenBothSerial ==
    ASSUME NEW p \in Process, NEW frame \in Nat, NEW record \in QueueRecord,
           NEW after \in {"requeue", "run", "return"},
           "index" \notin torn,
           IF after = "requeue"
           THEN frame = index[p.id].frame /\ record.status = "DUPLICATE_EVENT"
           ELSE /\ ~index[p.id].seen /\ index[p.id].frame = 0 /\ queue[p.id].frame = 0
                /\ record.status \in {"FRAME_CREATED", "ROUTE_NOT_FOUND", "FAILED_EXECUTION"},
           record.status = "FRAME_CREATED" => frame # 0,
           record.status = "FAILED_EXECUTION" => frame = 0 /\ after = "return",
           record.frame = frame, Agrees(p.held, <<p.id[1], 0>>),
           \A id \in Id : p.queueCopy[id] \in {queue[id], Absent}
    PROVE  LET q == ThenBoth(p, frame, record, after) IN
             /\ Orderly(q) /\ Due(q) = {p.id} /\ q.pc = "readIndex"
             /\ Lost(q) = IF after = "requeue" THEN Orphans ELSE Orphans \ ({frame} \ {0})
<1> DEFINE q == ThenBoth(p, frame, record, after)
<1>1. /\ q.pc = "readIndex" /\ q.record = record /\ q.after = after
      /\ q.id = p.id /\ q.frame = frame /\ q.held = p.held
      /\ q.queueCopy = p.queueCopy
  BY DEF ThenBoth, Process
<1> HIDE DEF q
<1>2. SerialIndex(q)
  BY <1>1 DEF SerialIndex, Unindexed, Failing, InTry, QueueWrite, IndexWrite
<1>3. SerialLinks(q)
  BY <1>1 DEF SerialLinks, Fresh, QueueWrite, IndexWrite
<1>4. SerialStatus(q)
  BY <1>1 DEF SerialStatus, Settled, QueueWrite, IndexWrite
<1>5. Lost(q) = IF after = "requeue" THEN Orphans ELSE Orphans \ ({frame} \ {0})
  BY <1>1 DEF Lost, Pending, Dropped, Failing, IndexWrite
<1>6. Due(q) = {p.id}
  BY <1>1 DEF Due, QueueWrite
<1> QED
  BY <1>1, <1>2, <1>3, <1>4, <1>5, <1>6 DEF Orderly, q

\* What is known of the only process.
LEMMA Alone ==
    ASSUME IndInv, SerialInv, NEW w \in Worker
    PROVE  /\ op[w] \in Process /\ Holds(frames, op[w]) /\ op[w].id \in Id
           /\ Orderly(op[w]) /\ SerialCounts(op[w])
           /\ \A id \in Id : op[w].queueCopy[id] \in {queue[id], Absent}
           /\ Agrees(op[w].held, <<op[w].id[1], 0>>)
<1>1. Serial(op[w]) /\ op[w] \in Process /\ Holds(frames, op[w])
  BY Mine DEF SerialInv
<1> QED
  BY <1>1 DEF Process, Serial, Orderly, SerialLinks

\* A step that leaves the orphans and the unsettled events fewer, or the same.
LEMMA CountsStep ==
    ASSUME IndInv, SerialInv, NEW w \in Worker, NEW p, UNCHANGED <<crashes, raised>>,
           Lost(p)' \subseteq Lost(op[w]),
           "index" \notin torn' \/ p.pc = "dumpIndex" =>
               /\ "index" \notin torn \/ op[w].pc = "dumpIndex"
               /\ (Unsettled \ Due(p))' \subseteq Unsettled \ Due(op[w])
    PROVE  SerialCounts(p)'
<1>1. Faults' = Faults /\ Faults \in Nat
  BY FaultsType DEF Faults
<1>2. /\ Cardinality(Lost(op[w])) <= Faults
      /\ "index" \notin torn \/ op[w].pc = "dumpIndex" =>
           /\ IsFiniteSet(Unsettled \ Due(op[w]))
           /\ Cardinality(Unsettled \ Due(op[w])) <= Faults
  BY Alone DEF SerialCounts
<1>3. Cardinality(Lost(p)') <= Faults'
  BY <1>1, <1>2, LostFinite, SmallerSet
<1>4. "index" \notin torn' \/ p.pc = "dumpIndex" =>
         /\ IsFiniteSet((Unsettled \ Due(p))')
         /\ Cardinality((Unsettled \ Due(p))') <= Faults'
  BY <1>1, <1>2, SmallerSet
<1> QED
  BY <1>3, <1>4 DEF SerialCounts

\* A step that changes the files or the store.
LEMMA StepSerial ==
    ASSUME OneWorker, IndInv, SerialInv, NEW w \in Worker, NEW p, Becomes(w, p),
           Orderly(p)', SerialCounts(p)',
           (\A id \in Id : index[id].frame # 0 => index[id].seen)', QueueAgrees'
    PROVE  SerialInv'
<1>1. \A v \in Worker : op'[v] = p
  BY DEF OneWorker, Becomes, IndInv, TypeOK
<1>2. Serial(p)'
  BY DEF Orderly, Serial
<1>3. ASSUME NEW v \in Worker PROVE Serial(op[v])'
  <2>1. op'[v] = p
    BY <1>1
  <2>2. SerialIndex(op[v])'
    BY <1>2, <2>1 DEF Serial, SerialIndex, Unindexed, Failing, InTry, QueueWrite, IndexWrite
  <2>3. SerialLinks(op[v])'
    BY <1>2, <2>1 DEF Serial, SerialLinks, Fresh, QueueWrite, IndexWrite
  <2>4. SerialStatus(op[v])'
    BY <1>2, <2>1 DEF Serial, SerialStatus, QueueWrite, IndexWrite
  <2>5. SerialCounts(op[v])'
    BY <1>2, <2>1 DEF Serial, SerialCounts, Due, Lost, Dropped, Pending, Failing, QueueWrite,
                      IndexWrite
  <2> QED
    BY <2>2, <2>3, <2>4, <2>5 DEF Serial
<1> QED
  BY <1>3 DEF SerialInv

\* The only process becomes another one; the files and the store stay.
LEMMA StaySerial ==
    ASSUME SerialInv, NEW p, UNCHANGED <<frames, index, queue>>, "index" \in torn' <=> "index" \in torn
    PROVE  /\ Orderly(p) /\ UNCHANGED <<crashes, raised>> => Orderly(p)'
           /\ Lost(p)' = Lost(p) /\ (Unsettled \ Due(p))' = Unsettled \ Due(p)
           /\ (\A id \in Id : index[id].frame # 0 => index[id].seen)' /\ QueueAgrees'
<1>1. \A r, id : Agrees(r, id)' <=> Agrees(r, id)
  BY DEF Agrees
<1>2. Orderly(p) /\ UNCHANGED <<crashes, raised>> => Orderly(p)'
  BY <1>1 DEF Orderly, SerialIndex, SerialLinks, SerialStatus, Unindexed, Failing, InTry, Fresh,
              QueueWrite, IndexWrite, Faults
<1>3. Lost(p)' = Lost(p)
  BY DEF Lost, Dropped, Pending, Failing, IndexWrite, Orphans
<1>4. (Unsettled \ Due(p))' = Unsettled \ Due(p)
  BY DEF Unsettled, Due, QueueWrite
<1> QED
  BY <1>1, <1>2, <1>3, <1>4 DEF SerialInv, QueueAgrees

LEMMA LocalSerial ==
    ASSUME OneWorker, IndInv, SerialInv, NEW w \in Worker, NEW p, Becomes(w, p),
           UNCHANGED <<frames, index, queue, crashes, raised>>,
           "index" \in torn' <=> "index" \in torn,
           Orderly(p), Lost(p) \subseteq Lost(op[w]), p.pc # "dumpIndex",
           "index" \in torn \/ Due(op[w]) \subseteq Due(p)
    PROVE  SerialInv'
<1>1. SerialCounts(p)'
  BY StaySerial, CountsStep
<1> QED
  BY <1>1, StaySerial, StepSerial

\* A crash or an exception costs at most one frame and one event.
LEMMA FaultSerial ==
    ASSUME OneWorker, IndInv, SerialInv, NEW w \in Worker, NEW p, Becomes(w, p),
           UNCHANGED <<frames, index, queue, torn>>, Faults' = Faults + 1,
           Orderly(p)', p.pc # "dumpIndex",
           NEW f, Lost(p) \subseteq Lost(op[w]) \cup {f},
           NEW id, Due(op[w]) \subseteq Due(p) \cup {id}
    PROVE  SerialInv'
<1>1. Faults \in Nat
  BY FaultsType
<1>2. /\ Cardinality(Lost(op[w])) <= Faults
      /\ "index" \notin torn \/ op[w].pc = "dumpIndex" =>
           /\ IsFiniteSet(Unsettled \ Due(op[w]))
           /\ Cardinality(Unsettled \ Due(op[w])) <= Faults
  BY Alone DEF SerialCounts
<1>3. Cardinality(Lost(p)) <= Faults + 1
  BY <1>1, <1>2, LostFinite, OneMore
<1>4. "index" \notin torn => /\ IsFiniteSet(Unsettled \ Due(p))
                             /\ Cardinality(Unsettled \ Due(p)) <= Faults + 1
  <2>1. Unsettled \ Due(p) \subseteq (Unsettled \ Due(op[w])) \cup {id}
    OBVIOUS
  <2> QED
    BY <1>1, <1>2, <2>1, OneMore
<1>5. Lost(p)' = Lost(p) /\ (Unsettled \ Due(p))' = Unsettled \ Due(p)
      /\ (\A i \in Id : index[i].frame # 0 => index[i].seen)' /\ QueueAgrees'
  BY StaySerial
<1>6. SerialCounts(p)'
  BY <1>3, <1>4, <1>5 DEF SerialCounts
<1> QED
  BY <1>5, <1>6, StepSerial

\* A process that has given up.
LEMMA ReturnedSerial ==
    ASSUME NEW p, p.pc \in {"idle", "return"}, p.id \in Id, p.queueCopy = NoQueue,
           Agrees(p.held, <<p.id[1], 0>>), "index" \in torn => Faults # 0
    PROVE  Orderly(p) /\ Lost(p) = Orphans /\ Due(p) = {}
<1>1. Orderly(p)
  BY NoCopies DEF Orderly, SerialIndex, SerialLinks, SerialStatus, Unindexed, Failing, InTry, Fresh,
                  QueueWrite, IndexWrite
<1>2. Lost(p) = Orphans
  BY DEF Lost, Pending, Dropped, Failing, IndexWrite
<1> QED
  BY <1>1, <1>2 DEF Due

LEMMA ThrownFields ==
    ASSUME NEW p \in Process
    PROVE  /\ Thrown(p).id = p.id /\ Thrown(p).held = p.held /\ Thrown(p).queueCopy = NoQueue
           /\ IF InTry(p)
              THEN /\ Thrown(p).pc = "readIndex" /\ Thrown(p).frame = 0
                   /\ Thrown(p).record = FailedRecord /\ Thrown(p).after = "return"
              ELSE Thrown(p).pc = "return"
<1> DEFINE q == [p EXCEPT !.ok = FALSE, !.indexCopy = NoIndex, !.queueCopy = NoQueue]
<1>1. q \in Process /\ q.id = p.id /\ q.held = p.held /\ q.queueCopy = NoQueue
  BY EmptyFiles DEF Process
<1> HIDE DEF q
<1>2. CASE InTry(p)
  BY <1>1, <1>2 DEF Thrown, ThenBoth, Process, q
<1>3. CASE ~InTry(p)
  BY <1>1, <1>3 DEF Thrown, Process, q
<1> QED
  BY <1>2, <1>3

\* An exception for a torn index, which the process has not torn: it holds no frame
\* that is not linked.
LEMMA TornSerial ==
    ASSUME OneWorker, IndInv, SerialInv, NEW w \in Worker, Throw(w),
           "index" \in torn, op[w].pc # "dumpIndex", ~QueueWrite(op[w]),
           UNCHANGED <<frames, index, queue, torn, crashes, raised>>
    PROVE  SerialInv'
<1>1. PICK q \in Process : q = op[w]
  BY Alone
<1>2. PICK p : p = Thrown(q)
  OBVIOUS
<1>3. Orderly(q) /\ q.id \in Id /\ Becomes(w, p) /\ Agrees(q.held, <<q.id[1], 0>>)
  BY <1>1, <1>2, Alone DEF Throw
<1>4. Faults # 0 /\ ~Unindexed(q)
  BY <1>1, <1>3 DEF Orderly, SerialIndex
<1>5. ~InTry(q)
  BY <1>1, <1>3, <1>4 DEF Orderly, SerialIndex, InTry, Unindexed, Failing, IndexWrite, QueueWrite
<1>6. p.pc = "return" /\ p.held = q.held /\ p.id = q.id /\ p.queueCopy = NoQueue
  BY <1>2, <1>5, ThrownFields
<1>7. Orderly(p) /\ Lost(p) = Orphans
  BY <1>3, <1>4, <1>6, ReturnedSerial
<1>8. Orphans \subseteq Lost(q)
  BY <1>3, <1>4 DEF Lost, Pending, Unindexed, Orderly, SerialIndex
<1> QED
  BY <1>1, <1>3, <1>6, <1>7, <1>8, LocalSerial

\* Commands.
LEMMA BeginSerial ==
    ASSUME OneWorker, IndInv, SerialInv, NEW w \in Worker, op[w].pc = "idle",
           NEW id \in Id, NEW run \in BOOLEAN, NEW held \in QueueRecord,
           Agrees(held, <<id[1], 0>>), Becomes(w, Begin(id, run, held)),
           UNCHANGED <<frames, index, queue, torn, crashes, raised>>
    PROVE  SerialInv'
<1> DEFINE p == [IdleProcess EXCEPT !.id = id, !.run = run, !.held = held]
           r == Record("RECEIVED", 0)
           q == ThenQueue(p, r, "check")
<1>1. IdleProcess \in Process
  BY IdleHolds
<1>2. p \in Process /\ p.id = id /\ p.held = held /\ p.queueCopy = NoQueue
  BY <1>1 DEF IdleProcess, Process
<1>3. r \in QueueRecord /\ r.status = "RECEIVED" /\ r.frame = 0 /\ Agrees(r, id)
  BY RecordType DEF QueueStatuses, Agrees
<1>4. /\ "index" \in torn => Faults # 0
      /\ Lost(op[w]) = Orphans /\ Due(op[w]) = {}
  BY Alone DEF Orderly, SerialIndex, Lost, Pending, Dropped, Failing, IndexWrite, Due
<1>5. Becomes(w, q)
  BY DEF Begin
<1> HIDE DEF p, r
<1>6. Orderly(q) /\ Lost(q) = Orphans /\ q.pc = "readQueue"
  BY <1>2, <1>3, <1>4, NoCopies, ThenQueueSerial
<1> HIDE DEF q
<1> QED
  BY <1>4, <1>5, <1>6, LocalSerial

LEMMA LoadedAgrees ==
    ASSUME IndInv, SerialInv, NEW id \in Id
    PROVE  Loaded(id) \in QueueRecord /\ Agrees(Loaded(id), id)
BY LoadedLinks, NoCopies DEF Loaded, SerialInv, QueueAgrees

LEMMA CommandSerial ==
    ASSUME OneWorker, IndInv, SerialInv, NEW w \in Worker, Command(w)
    PROVE  SerialInv'
<1>1. ASSUME NEW e \in Event, Deliver(w, e) PROVE SerialInv'
  <2>1. PICK run \in BOOLEAN : Becomes(w, Begin(<<e, 0>>, run, Absent))
    BY <1>1 DEF Deliver
  <2>2. <<e, 0>> \in Id /\ Absent \in QueueRecord /\ Agrees(Absent, <<<<e, 0>>[1], 0>>)
    BY EventIntakeAssumption, AbsentLinks, NoCopies DEF Id
  <2>3. op[w].pc = "idle" /\ UNCHANGED <<frames, index, queue, torn, crashes, raised>>
    BY <1>1 DEF Deliver, At
  <2> QED
    BY <2>1, <2>2, <2>3, BeginSerial
<1>2. ASSUME NEW e \in Event, Replay(w, e) PROVE SerialInv'
  <2> DEFINE id == <<e, 0>>
             record == IF Loaded(id) # Absent THEN Loaded(id) ELSE Record("RECEIVED", 0)
  <2>1. id \in Id /\ id[1] = e
    BY EventIntakeAssumption DEF Id
  <2>2. /\ Becomes(w, Begin(ReplayId(id, record), TRUE, record)) /\ record.attempts < MaxReplays
        /\ op[w].pc = "idle" /\ UNCHANGED <<frames, index, queue, torn, crashes, raised>>
    BY <1>2 DEF Replay, At
  <2>3. record \in QueueRecord /\ Agrees(record, id)
    BY <2>1, LoadedAgrees, RecordType DEF QueueStatuses, Agrees
  <2> HIDE DEF record
  <2>4. record.attempts \in 0..MaxReplays
    BY <2>3 DEF QueueRecord
  <2>5. ReplayId(id, record) \in Id /\ <<ReplayId(id, record)[1], 0>> = id
    BY <2>1, <2>2, <2>4, EventIntakeAssumption DEF Id, ReplayId
  <2> QED
    BY <2>2, <2>3, <2>5, BeginSerial
<1> QED
  BY <1>1, <1>2 DEF Command

\* The queue file.
LEMMA ReadQueueSerial ==
    ASSUME OneWorker, IndInv, SerialInv, NEW w \in Worker, ReadQueue(w)
    PROVE  SerialInv'
<1> DEFINE copy == IF "queue" \in torn THEN NoQueue ELSE queue
           q == op[w]
           p == [q EXCEPT !.pc = "openQueue", !.queueCopy = copy]
<1>1. q \in Process /\ Orderly(q) /\ q.pc = "readQueue"
  BY Alone DEF ReadQueue, At
<1>2. \A id \in Id : copy[id] \in {queue[id], Absent}
  BY NoCopies
<1>3. /\ p.pc = "openQueue" /\ p.frame = q.frame /\ p.record = q.record
      /\ p.id = q.id /\ p.held = q.held /\ p.after = q.after
      /\ p.indexCopy = q.indexCopy /\ p.queueCopy = copy
  BY <1>1 DEF Process
<1>4. Becomes(w, p) /\ UNCHANGED <<frames, index, queue, torn, crashes, raised>>
  BY DEF ReadQueue
<1> HIDE DEF p, q, copy
<1>5. SerialIndex(p)
  BY <1>1, <1>3 DEF Orderly, SerialIndex, Unindexed, Failing, InTry, QueueWrite, IndexWrite
<1>6. SerialLinks(p)
  BY <1>1, <1>2, <1>3 DEF Orderly, SerialLinks, Fresh, QueueWrite, IndexWrite
<1>7. SerialStatus(p)
  BY <1>1, <1>3 DEF Orderly, SerialStatus, QueueWrite, IndexWrite
<1>8. Lost(p) = Lost(q) /\ Due(p) = Due(q)
  BY <1>1, <1>3 DEF Lost, Pending, Dropped, Failing, IndexWrite, Due, QueueWrite
<1> QED
  BY <1>3, <1>4, <1>5, <1>6, <1>7, <1>8, LocalSerial DEF Orderly, q

LEMMA OpenQueueSerial ==
    ASSUME OneWorker, IndInv, SerialInv, NEW w \in Worker, OpenQueue(w)
    PROVE  SerialInv'
<1> DEFINE q == op[w]
           p == [q EXCEPT !.pc = "dumpQueue"]
<1>1. q \in Process /\ Orderly(q) /\ q.pc = "openQueue"
  BY Alone DEF OpenQueue, At
<1>2. /\ p.pc = "dumpQueue" /\ p.frame = q.frame /\ p.record = q.record
      /\ p.id = q.id /\ p.held = q.held /\ p.after = q.after
      /\ p.indexCopy = q.indexCopy /\ p.queueCopy = q.queueCopy
  BY <1>1 DEF Process
<1>3. /\ Becomes(w, p) /\ UNCHANGED <<frames, index, queue, crashes, raised>>
      /\ "index" \in torn' <=> "index" \in torn
  BY DEF OpenQueue
<1> HIDE DEF p, q
<1>4. Orderly(p)
  BY <1>1, <1>2 DEF Orderly, SerialIndex, SerialLinks, SerialStatus, Unindexed, Failing, InTry,
                    Fresh, QueueWrite, IndexWrite
<1>5. Lost(p) = Lost(q) /\ Due(p) = Due(q)
  BY <1>1, <1>2 DEF Lost, Pending, Dropped, Failing, IndexWrite, Due, QueueWrite
<1> QED
  BY <1>2, <1>3, <1>4, <1>5, <1>1, LocalSerial DEF q

\* Writing a file does not tear the other one.
LEMMA OtherFile ==
    ASSUME NEW file, NEW other, other # file, torn' \in TornAfter(file)
    PROVE  other \in torn' <=> other \in torn
<1>1. torn' = torn \/ torn' = torn \ {file} \/ torn' = torn \cup {file}
  BY DEF TornAfter
<1> QED
  BY <1>1

LEMMA DumpQueueSerial ==
    ASSUME OneWorker, IndInv, SerialInv, NEW w \in Worker, DumpQueue(w)
    PROVE  SerialInv'
<1>1. PICK q \in Process : q = op[w]
  BY Alone
<1>2. PICK p : p = IF q.after = "idle" THEN IdleProcess
                   ELSE [q EXCEPT !.pc = q.after, !.queueCopy = NoQueue]
  OBVIOUS
<1>3. /\ q.pc = "dumpQueue" /\ Orderly(q) /\ q.id \in Id /\ Becomes(w, p)
      /\ queue' = [q.queueCopy EXCEPT ![q.id] = q.record]
      /\ UNCHANGED <<frames, index, crashes, raised>>
      /\ "index" \in torn' <=> "index" \in torn
  <2>1. "index" \in torn' <=> "index" \in torn
    BY OtherFile DEF DumpQueue
  <2> QED
    BY <1>1, <1>2, <2>1, Alone DEF DumpQueue, At, QueueWritten
<1>4. \A id \in Id : queue'[id] = IF id = q.id THEN q.record ELSE q.queueCopy[id]
  BY <1>1, <1>3 DEF Process
<1>5. \A r, id : Agrees(r, id)' <=> Agrees(r, id)
  BY <1>3 DEF Agrees
<1>6. \A id \in Id \ {q.id} : queue'[id] \in {queue[id], Absent}
  BY <1>3, <1>4 DEF Orderly, SerialLinks
<1>7. QueueAgrees'
  <2>1. \A id \in Id : Agrees(queue'[id], id)
    BY <1>3, <1>4, <1>6, NoCopies DEF SerialInv, QueueAgrees, Orderly, SerialLinks, QueueWrite
  <2> QED
    BY <1>5, <2>1 DEF QueueAgrees
<1>8. q.after \in {"idle", "check", "map", "run", "return"}
  BY <1>1, <1>3 DEF Process, Orderly, SerialLinks, QueueWrite
<1>9. q.after \in {"idle", "run", "return"} => Settled(queue'[q.id])
  BY <1>3, <1>4 DEF Orderly, SerialStatus, QueueWrite
<1>10. (\A id \in Id : index[id].frame # 0 => index[id].seen)'
  BY <1>3 DEF SerialInv
<1>11. p.queueCopy = NoQueue /\ p.id \in Id /\ Agrees(p.held, <<p.id[1], 0>>)'
  <2>1. CASE q.after = "idle"
    BY <1>2, <1>5, <2>1, IdleHolds, NoCopies DEF IdleProcess, Process
  <2>2. CASE q.after # "idle"
    <3>1. p.queueCopy = NoQueue /\ p.id = q.id /\ p.held = q.held
      BY <1>2, <2>2 DEF Process
    <3> QED
      BY <1>3, <1>5, <3>1 DEF Orderly, SerialLinks
  <2> QED
    BY <2>1, <2>2
<1>12. p.pc = q.after
  BY <1>2, <1>8 DEF IdleProcess, Process
<1>13. q.after # "idle" => p.after = q.after /\ p.id = q.id /\ p.frame = q.frame
  BY <1>2 DEF Process
<1>14. SerialIndex(p)'
  BY <1>3, <1>8, <1>12, <1>13
     DEF Orderly, SerialIndex, Unindexed, Failing, InTry, QueueWrite, IndexWrite, Faults
<1>15. SerialLinks(p)'
  <2>1. \A id \in Id : p.queueCopy[id] = Absent
    BY <1>11, NoCopies
  <2>2. p.pc \in {"check", "map"} => queue'[p.id].frame = 0
    BY <1>3, <1>4, <1>12, <1>13 DEF Orderly, SerialLinks, QueueWrite
  <2>3. p.pc = "run" => p.frame = index'[p.id].frame
    BY <1>3, <1>12, <1>13 DEF Orderly, SerialLinks, QueueWrite
  <2> QED
    BY <1>8, <1>11, <1>12, <2>1, <2>2, <2>3 DEF SerialLinks, Fresh, QueueWrite, IndexWrite
<1>16. SerialStatus(p)'
  BY <1>8, <1>12 DEF SerialStatus, QueueWrite, IndexWrite
<1>17. Lost(p)' = Orphans /\ Lost(q) = Orphans
  BY <1>3, <1>8, <1>12 DEF Lost, Pending, Dropped, Failing, IndexWrite, Orphans
<1>18. (Unsettled \ Due(p))' \subseteq Unsettled \ Due(q)
  <2>1. \A id \in Id \ {q.id} : ~Settled(queue'[id]) => ~Settled(queue[id])
    BY <1>6, NoCopies
  <2>2. q.after \in {"check", "map"} => Due(p)' = {q.id} /\ Due(q) = {q.id}
    BY <1>3, <1>12, <1>13 DEF Due, QueueWrite
  <2>3. Due(q) \subseteq {q.id}
    BY DEF Due
  <2>4. Unsettled' = {id \in Id : ~Settled(queue'[id])}
    BY DEF Unsettled, Settled
  <2> QED
    BY <1>8, <1>9, <2>1, <2>2, <2>3, <2>4 DEF Unsettled
<1>19. SerialCounts(p)'
  BY <1>1, <1>3, <1>8, <1>12, <1>17, <1>18, CountsStep
<1> QED
  BY <1>3, <1>7, <1>10, <1>14, <1>15, <1>16, <1>19, StepSerial DEF Orderly

\* The index file.
LEMMA ReadIndexSerial ==
    ASSUME OneWorker, IndInv, SerialInv, NEW w \in Worker, ReadIndex(w)
    PROVE  SerialInv'
<1> DEFINE q == op[w]
           p == [q EXCEPT !.pc = "openIndex", !.indexCopy = index]
<1>1. q \in Process /\ Orderly(q) /\ q.pc = "readIndex"
  BY Alone DEF ReadIndex, At
<1>2. CASE "index" \notin torn
  <2>1. /\ p.pc = "openIndex" /\ p.frame = q.frame /\ p.record = q.record
        /\ p.id = q.id /\ p.held = q.held /\ p.after = q.after
        /\ p.indexCopy = index /\ p.queueCopy = q.queueCopy
    BY <1>1 DEF Process
  <2>2. Becomes(w, p) /\ UNCHANGED <<frames, index, queue, torn, crashes, raised>>
    BY <1>2 DEF ReadIndex
  <2> HIDE DEF p, q
  <2>3. SerialIndex(p)
    BY <1>1, <1>2, <2>1 DEF Orderly, SerialIndex, Unindexed, Failing, InTry, QueueWrite, IndexWrite
  <2>4. SerialLinks(p) /\ SerialStatus(p)
    BY <1>1, <2>1 DEF Orderly, SerialLinks, SerialStatus, Fresh, QueueWrite, IndexWrite
  <2>5. Lost(p) = Lost(q) /\ Due(p) = Due(q)
    BY <1>1, <2>1 DEF Lost, Pending, Dropped, Failing, IndexWrite, Due, QueueWrite
  <2> QED
    BY <2>1, <2>2, <2>3, <2>4, <2>5, LocalSerial DEF Orderly, q
<1>3. CASE "index" \in torn
  BY <1>1, <1>3, TornSerial DEF ReadIndex, QueueWrite
<1> QED
  BY <1>2, <1>3

LEMMA OpenIndexSerial ==
    ASSUME OneWorker, IndInv, SerialInv, NEW w \in Worker, OpenIndex(w)
    PROVE  SerialInv'
<1>1. PICK q \in Process : q = op[w]
  BY Alone
<1>2. PICK p : p = [q EXCEPT !.pc = "dumpIndex"]
  OBVIOUS
<1>3. /\ q.pc = "openIndex" /\ Orderly(q) /\ Becomes(w, p) /\ "index" \in torn'
      /\ UNCHANGED <<frames, index, queue, crashes, raised>>
  BY <1>1, <1>2, Alone DEF OpenIndex, At
<1>4. /\ p.pc = "dumpIndex" /\ p.frame = q.frame /\ p.record = q.record
      /\ p.id = q.id /\ p.held = q.held /\ p.after = q.after
      /\ p.indexCopy = q.indexCopy /\ p.queueCopy = q.queueCopy
  BY <1>2 DEF Process
<1>5. "index" \notin torn
  BY <1>3 DEF Orderly, SerialIndex
<1>6. \A r, id : Agrees(r, id)' <=> Agrees(r, id)
  BY <1>3 DEF Agrees
<1>7. SerialIndex(p)'
  BY <1>3, <1>4 DEF Orderly, SerialIndex, Unindexed, Failing, InTry, QueueWrite, IndexWrite
<1>8. SerialLinks(p)' /\ SerialStatus(p)'
  BY <1>3, <1>4, <1>6 DEF Orderly, SerialLinks, SerialStatus, Fresh, QueueWrite, IndexWrite
<1>9. Lost(p)' = Lost(q) /\ (Unsettled \ Due(p))' = Unsettled \ Due(q)
  <2>1. Pending(p)' = Pending(q) /\ Dropped(p)' = Dropped(q) /\ Orphans' = Orphans
    BY <1>3, <1>4 DEF Pending, Dropped, Failing, IndexWrite, Orphans
  <2>2. Due(p)' = Due(q) /\ Unsettled' = Unsettled
    BY <1>3, <1>4 DEF Due, QueueWrite, Unsettled, Settled
  <2> QED
    BY <2>1, <2>2 DEF Lost
<1>10. SerialCounts(p)'
  BY <1>1, <1>3, <1>5, <1>9, CountsStep
<1>11. QueueAgrees' /\ (\A id \in Id : index[id].frame # 0 => index[id].seen)'
  BY <1>3, <1>6 DEF SerialInv, QueueAgrees
<1> QED
  BY <1>3, <1>7, <1>8, <1>10, <1>11, StepSerial DEF Orderly

\* What the only process writes into the index: the entry of its event, which linked
\* no other frame, or an exception takes the link away.
LEMMA IndexStep ==
    ASSUME IndInv, SerialInv, NEW w \in Worker, DumpIndex(w)
    PROVE  LET q == op[w] IN
             /\ q.pc = "dumpIndex" /\ "index" \notin torn'
             /\ \A id \in Id : index'[id] = IF id = q.id THEN [seen |-> TRUE, frame |-> q.frame]
                                                       ELSE index[id]
             /\ \A id \in Id : index[id].frame # 0 /\ index'[id].frame # index[id].frame =>
                                 id = q.id /\ Failing(q) /\ raised > 0 /\ index'[id].frame = 0
<1> DEFINE q == op[w]
<1>1. q \in Process
  BY Alone
<1>2. /\ q.pc = "dumpIndex" /\ Orderly(q) /\ q.id \in Id
      /\ index' = [q.indexCopy EXCEPT ![q.id] = [seen |-> TRUE, frame |-> q.frame]]
      /\ torn' \in TornAfter("index")
  BY Alone DEF DumpIndex, At, IndexWritten
<1>3. q.indexCopy = index /\ "index" \in torn
  BY <1>2 DEF Orderly, SerialIndex
<1>4. "index" \notin torn'
  BY <1>2, <1>3 DEF TornAfter
<1>5. \A id \in Id : index'[id] = IF id = q.id THEN [seen |-> TRUE, frame |-> q.frame]
                                            ELSE index[id]
  BY <1>1, <1>2, <1>3 DEF Process
<1>6. index[q.id].frame # 0 /\ q.frame # index[q.id].frame =>
          Failing(q) /\ raised > 0 /\ q.frame = 0
  BY <1>2 DEF Orderly, SerialIndex, SerialLinks, Unindexed, Failing, IndexWrite, SerialInv
<1>7. \A id \in Id : index[id].frame # 0 /\ index'[id].frame # index[id].frame =>
                       id = q.id /\ Failing(q) /\ raised > 0 /\ index'[id].frame = 0
  BY <1>5, <1>6
<1> QED
  BY <1>2, <1>4, <1>5, <1>7

LEMMA DumpIndexSerial ==
    ASSUME OneWorker, IndInv, SerialInv, NEW w \in Worker, DumpIndex(w)
    PROVE  SerialInv'
<1>1. PICK q \in Process : q = op[w]
  BY Alone
<1>2. PICK p : p = [q EXCEPT !.pc = IF q.after = "requeue" THEN "requeue" ELSE "readQueue",
                             !.indexCopy = NoIndex]
  OBVIOUS
<1>3. /\ q.pc = "dumpIndex" /\ Orderly(q) /\ Holds(frames, q) /\ q.id \in Id /\ Becomes(w, p)
      /\ UNCHANGED <<frames, queue, crashes, raised>>
  BY <1>1, <1>2, Alone DEF DumpIndex, At
<1>4. /\ "index" \notin torn'
      /\ \A id \in Id : index'[id] = IF id = q.id THEN [seen |-> TRUE, frame |-> q.frame]
                                                ELSE index[id]
      /\ \A id \in Id : index[id].frame # 0 /\ index'[id].frame # index[id].frame =>
                          id = q.id /\ Failing(q) /\ raised > 0 /\ index'[id].frame = 0
  BY <1>1, IndexStep
<1>5. /\ p.pc = IF q.after = "requeue" THEN "requeue" ELSE "readQueue"
      /\ p.frame = q.frame /\ p.record = q.record
      /\ p.id = q.id /\ p.held = q.held /\ p.after = q.after /\ p.queueCopy = q.queueCopy
  BY <1>2 DEF Process
<1>6. /\ q.after \in {"requeue", "run", "return"} /\ q.record.frame = q.frame
      /\ q.record.status \in {"FRAME_CREATED", "DUPLICATE_EVENT", "ROUTE_NOT_FOUND",
                              "FAILED_EXECUTION"}
      /\ q.record.status = "FRAME_CREATED" => q.frame # 0
      /\ q.record.status = "FAILED_EXECUTION" => q.frame = 0
      /\ Agrees(q.held, <<q.id[1], 0>>) /\ <<q.id[1], 0>> \in Id
      /\ q.after # "requeue" => queue[q.id].frame = 0
      /\ \A id \in Id : q.queueCopy[id] \in {queue[id], Absent}
      /\ q.after = "requeue" => q.frame = index[q.id].frame /\ Agrees(q.record, q.id)
  <2>1. /\ q.after \in {"requeue", "run", "return"} /\ q.record.frame = q.frame
        /\ q.record.status \in {"FRAME_CREATED", "DUPLICATE_EVENT", "ROUTE_NOT_FOUND",
                                "FAILED_EXECUTION"}
        /\ q.record.status = "FRAME_CREATED" => q.frame # 0
        /\ q.record.status = "FAILED_EXECUTION" => q.frame = 0
        /\ q.after # "requeue" => queue[q.id].frame = 0
        /\ \A id \in Id : q.queueCopy[id] \in {queue[id], Absent}
        /\ q.after = "requeue" => q.frame = index[q.id].frame
        /\ Agrees(q.held, <<q.id[1], 0>>)
    BY <1>3 DEF Orderly, SerialIndex, SerialLinks, Failing, Fresh, IndexWrite
  <2>2. q.after = "requeue" => q.record.status = "DUPLICATE_EVENT"
    BY <1>3 DEF Holds
  <2>3. q.after = "requeue" => Agrees(q.record, q.id)
    BY <2>1, <2>2 DEF Agrees
  <2> QED
    BY <1>3, <2>1, <2>3, OriginalId
\* Records of other events, and of this one unless they name a frame, still agree.
<1>7. \A r, id : id \in Id /\ Agrees(r, id) /\ (id # q.id \/ r.frame \in {0, q.frame})
                   => Agrees(r, id)'
  BY <1>3, <1>4 DEF Agrees
<1>8. Agrees(q.record, q.id)'
  BY <1>3, <1>4, <1>6 DEF Agrees
<1>9. Agrees(q.held, <<q.id[1], 0>>)'
  <2>1. CASE q.held = Absent
    BY <1>6, <1>7, <2>1, NoCopies
  <2>2. CASE q.held # Absent
    <3>1. q.id[2] > 0
      BY <1>3, <2>2 DEF Holds
    <3>2. <<q.id[1], 0>> # q.id
      BY <3>1
    <3> QED
      BY <1>6, <1>7, <3>2
  <2> QED
    BY <2>1, <2>2
<1>10. SerialIndex(p)'
  BY <1>3, <1>4, <1>5, <1>6 DEF SerialIndex, Unindexed, Failing, InTry, QueueWrite, IndexWrite,
                               Orderly
<1>11. SerialLinks(p)'
  <2>1. p.pc = "requeue" => p.frame = index'[p.id].frame
    BY <1>3, <1>4, <1>5
  <2>2. QueueWrite(p) /\ p.after = "run" => p.frame = index'[p.id].frame
    BY <1>3, <1>4, <1>5
  <2>3. Fresh(p) => queue'[p.id].frame = 0
    BY <1>3, <1>5, <1>6 DEF Fresh, QueueWrite, IndexWrite
  <2>4. /\ ~IndexWrite(p) /\ p.pc \notin {"run", "settle"}
        /\ QueueWrite(p) => p.after \in {"run", "return"}
    BY <1>5, <1>6 DEF QueueWrite, IndexWrite
  <2>5. Agrees(p.record, p.id)' /\ Agrees(p.held, <<p.id[1], 0>>)'
    BY <1>5, <1>8, <1>9
  <2>6. \A id \in Id : p.queueCopy[id] \in {queue'[id], Absent}
    BY <1>3, <1>5, <1>6
  <2> QED
    BY <2>1, <2>2, <2>3, <2>4, <2>5, <2>6 DEF SerialLinks, Fresh, QueueWrite, IndexWrite
<1>12. SerialStatus(p)'
  BY <1>3, <1>5, <1>6 DEF Orderly, SerialStatus, QueueWrite, IndexWrite
<1>13. QueueAgrees' /\ (\A id \in Id : index[id].frame # 0 => index[id].seen)'
  <2>1. \A id \in Id : Agrees(queue[id], id)'
    <3> SUFFICES ASSUME NEW id \in Id PROVE Agrees(queue[id], id)'
      OBVIOUS
    <3>1. Agrees(queue[id], id)
      BY DEF SerialInv, QueueAgrees
    <3>2. CASE id # q.id \/ queue[id].frame = 0
      BY <1>3, <1>7, <3>1, <3>2
    <3>3. CASE id = q.id /\ q.after = "requeue"
      BY <1>3, <1>4, <1>6, <3>1, <3>3 DEF Agrees
    <3> QED
      BY <1>6, <3>2, <3>3
  <2>2. \A id \in Id : index'[id].frame # 0 => index'[id].seen
    BY <1>3, <1>4 DEF SerialInv
  <2> QED
    BY <2>1, <2>2 DEF QueueAgrees
<1>14. Lost(p)' \subseteq Lost(q)
  <2>1. Lost(p)' = Orphans'
    BY <1>5, <1>6 DEF Lost, Pending, Dropped, Failing, IndexWrite
  <2> SUFFICES ASSUME NEW f \in Orphans' PROVE f \in Lost(q)
    BY <2>1
  <2>2. /\ f \in DOMAIN frames /\ index'[frames[f].event].frame # f /\ f # 0
        /\ frames[f].event \in Id
    <3>1. f \in DOMAIN frames /\ index'[frames[f].event].frame # f
      BY <1>3 DEF Orphans
    <3>2. frames \in Seq(FrameRecord)
      BY DEF IndInv, TypeOK, FrameRecord
    <3>3. DOMAIN frames = 1..Len(frames) /\ \A g \in DOMAIN frames : frames[g] \in FrameRecord
      BY <3>2
    <3>4. f # 0 /\ frames[f] \in FrameRecord
      BY <3>1, <3>3
    <3> QED
      BY <3>1, <3>4 DEF FrameRecord
  <2>3. CASE index[frames[f].event].frame # f
    <3>1. f # q.frame
      BY <1>3, <1>4, <2>2 DEF Holds, Links
    <3> QED
      BY <2>2, <2>3, <3>1 DEF Lost, Orphans, Pending
  <2>4. CASE index[frames[f].event].frame = f
    <3>1. frames[f].event = q.id /\ Failing(q)
      BY <1>4, <2>2, <2>4
    <3> QED
      BY <2>2, <2>4, <3>1 DEF Lost, Dropped
  <2> QED
    BY <2>3, <2>4
<1>15. (Unsettled \ Due(p))' = Unsettled \ Due(q)
  <2>1. Due(p)' = {q.id} /\ Due(q) = {q.id}
    BY <1>3, <1>5, <1>6 DEF Due, QueueWrite
  <2>2. Unsettled' = Unsettled
    BY <1>3 DEF Unsettled, Settled
  <2> QED
    BY <2>1, <2>2
<1>16. SerialCounts(p)'
  BY <1>1, <1>3, <1>14, <1>15, CountsStep
<1> QED
  BY <1>3, <1>10, <1>11, <1>12, <1>13, <1>16, StepSerial DEF Orderly

\* The check for duplicates.
LEMMA CheckSerial ==
    ASSUME OneWorker, IndInv, SerialInv, NEW w \in Worker, Check(w)
    PROVE  SerialInv'
<1> DEFINE q == op[w]
<1>1. /\ q \in Process /\ Orderly(q) /\ q.pc = "check" /\ q.id \in Id
      /\ UNCHANGED <<frames, index, queue, torn, crashes, raised>>
  BY Alone DEF Check, At
<1>2. CASE "index" \in torn
  BY <1>1, <1>2, TornSerial DEF Check, QueueWrite
<1>3. CASE "index" \notin torn
  <2>1. PICK pc \in {"duplicate", "route"} :
            Becomes(w, [q EXCEPT !.pc = pc]) /\ (pc = "route" => ~index[q.id].seen)
    BY <1>3 DEF Check, IsDuplicate
  <2> DEFINE p == [q EXCEPT !.pc = pc]
  <2>2. /\ p.pc = pc /\ p.frame = q.frame /\ p.record = q.record
        /\ p.id = q.id /\ p.held = q.held /\ p.after = q.after
        /\ p.indexCopy = q.indexCopy /\ p.queueCopy = q.queueCopy
    BY <1>1 DEF Process
  <2> HIDE DEF p, q
  <2>3. Orderly(p)
    BY <1>1, <1>3, <2>1, <2>2
       DEF Orderly, SerialIndex, SerialLinks, SerialStatus, Unindexed, Failing, InTry, Fresh,
           QueueWrite, IndexWrite
  <2>4. Lost(p) = Lost(q) /\ Due(p) = Due(q)
    BY <1>1, <2>2 DEF Lost, Pending, Dropped, Failing, IndexWrite, Due, QueueWrite
  <2> QED
    BY <1>1, <2>1, <2>2, <2>3, <2>4, LocalSerial DEF p, q
<1> QED
  BY <1>2, <1>3

\* What holds before an event is refused, routed or given a frame.
LEMMA IntakeSerial ==
    ASSUME IndInv, SerialInv, NEW w \in Worker, op[w].pc \in {"check", "duplicate", "requeue", "route", "map"}
    PROVE  /\ "index" \in torn => Faults # 0
           /\ op[w].pc \in {"route", "map"} =>
                "index" \notin torn /\ ~index[op[w].id].seen /\ index[op[w].id].frame = 0
           /\ op[w].pc \in {"check", "route", "map"} => queue[op[w].id].frame = 0
           /\ Lost(op[w]) = Orphans /\ Due(op[w]) = {op[w].id}
<1>1. Orderly(op[w]) /\ op[w].id \in Id
  BY Alone
<1>2. Lost(op[w]) = Orphans /\ Due(op[w]) = {op[w].id}
  BY DEF Lost, Pending, Dropped, Failing, IndexWrite, Due, QueueWrite
<1> QED
  BY <1>1, <1>2 DEF Orderly, SerialIndex, SerialLinks, Unindexed, Fresh, SerialInv

\* An entry and a record that name no frame.
LEMMA FramelessSerial ==
    ASSUME IndInv, SerialInv, NEW w \in Worker, op[w].pc \in {"route", "map"},
           NEW record \in QueueRecord, record.frame = 0,
           record.status \in {"ROUTE_NOT_FOUND", "FAILED_EXECUTION"}
    PROVE  LET q == ThenBoth(op[w], 0, record, "return") IN
             Orderly(q) /\ Due(q) = {op[w].id} /\ q.pc = "readIndex" /\ Lost(q) = Orphans
<1>1. PICK p \in Process : p = op[w]
  BY Alone
<1>2. PICK after \in {"requeue", "run", "return"}, frame \in Nat : after = "return" /\ frame = 0
  OBVIOUS
<1>3. /\ "index" \notin torn /\ ~index[p.id].seen /\ index[p.id].frame = 0
      /\ queue[p.id].frame = 0
  BY <1>1, IntakeSerial
<1>4. Agrees(p.held, <<p.id[1], 0>>) /\ \A id \in Id : p.queueCopy[id] \in {queue[id], Absent}
  BY <1>1, Alone
<1> DEFINE q == ThenBoth(p, frame, record, after)
<1>5. /\ Orderly(q) /\ Due(q) = {p.id} /\ q.pc = "readIndex"
      /\ Lost(q) = IF after = "requeue" THEN Orphans ELSE Orphans \ ({frame} \ {0})
  BY <1>2, <1>3, <1>4, ThenBothSerial
<1> HIDE DEF q
<1>6. Lost(q) = Orphans
  BY <1>2, <1>5
<1> QED
  BY <1>1, <1>2, <1>5, <1>6 DEF q

\* A delivery ends with a failure, before or after the event was routed.
LEMMA RefuseSerial ==
    ASSUME OneWorker, IndInv, SerialInv, NEW w \in Worker, Invalid(w) \/ Unmappable(w)
    PROVE  SerialInv'
<1>1. /\ op[w] \in Process /\ op[w].id \in Id /\ op[w].pc \in {"check", "map"}
      /\ UNCHANGED <<frames, index, queue, torn, crashes, raised>>
  BY Alone DEF Invalid, Unmappable, At
<1>2. /\ FailedRecord \in QueueRecord /\ FailedRecord.frame = 0
      /\ FailedRecord.status = "FAILED_EXECUTION" /\ Settled(FailedRecord)
      /\ Agrees(FailedRecord, op[w].id)
  BY RecordType DEF FailedRecord, QueueStatuses, Agrees, Settled
<1>3. CASE Invalid(w)
  <2> DEFINE p == ThenQueue(op[w], FailedRecord, "return")
  <2>1. Orderly(p) /\ Lost(p) = Orphans /\ Due(p) = {op[w].id} /\ p.pc = "readQueue"
    BY <1>1, <1>2, Alone, IntakeSerial, ThenQueueSerial
  <2>2. Becomes(w, p)
    BY <1>3 DEF Invalid
  <2> HIDE DEF p
  <2> QED
    BY <1>1, <2>1, <2>2, IntakeSerial, LocalSerial
<1>4. CASE Unmappable(w)
  <2> DEFINE p == ThenBoth(op[w], 0, FailedRecord, "return")
  <2>1. op[w].pc = "map" /\ Becomes(w, p)
    BY <1>4 DEF Unmappable, At
  <2>3. Orderly(p) /\ Due(p) = {op[w].id} /\ p.pc = "readIndex" /\ Lost(p) = Orphans
    BY <1>2, <2>1, FramelessSerial
  <2> HIDE DEF p
  <2> QED
    BY <1>1, <2>1, <2>3, IntakeSerial, LocalSerial
<1> QED
  BY <1>3, <1>4

LEMMA DuplicateSerial ==
    ASSUME OneWorker, IndInv, SerialInv, NEW w \in Worker, Duplicate(w)
    PROVE  SerialInv'
<1>1. /\ op[w] \in Process /\ op[w].pc = "duplicate" /\ op[w].id \in Id
      /\ UNCHANGED <<frames, index, queue, torn, crashes, raised>>
  BY Alone DEF Duplicate, At
<1>2. CASE "index" \in torn
  BY <1>1, <1>2, TornSerial DEF Duplicate, QueueWrite
<1>3. CASE "index" \notin torn
  <2> DEFINE frame == index[op[w].id].frame
             r == Record("DUPLICATE_EVENT", frame)
             ok == [op[w] EXCEPT !.ok = TRUE]
             p == ThenBoth(ok, frame, r, "requeue")
  <2>1. /\ ok \in Process /\ ok.id = op[w].id /\ ok.held = op[w].held
        /\ ok.queueCopy = op[w].queueCopy
    BY <1>1 DEF Process
  <2>2. frame \in Nat
    BY <1>1 DEF IndInv, TypeOK, IndexEntry
  <2>3. r \in QueueRecord /\ r.frame = frame /\ r.status = "DUPLICATE_EVENT"
    BY <2>2, RecordType DEF QueueStatuses
  <2>4. Becomes(w, p)
    BY <1>3 DEF Duplicate
  <2> HIDE DEF ok, r
  <2>5. Agrees(ok.held, <<ok.id[1], 0>>) /\ \A id \in Id : ok.queueCopy[id] \in {queue[id], Absent}
    BY <2>1, Alone
  <2>6. PICK after \in {"requeue", "run", "return"} : after = "requeue"
    OBVIOUS
  <2>7. frame = index[ok.id].frame /\ r.status # "FRAME_CREATED" /\ r.status # "FAILED_EXECUTION"
    BY <2>1, <2>3
  <2> HIDE DEF frame
  <2>8. LET q == ThenBoth(ok, frame, r, after) IN
          /\ Orderly(q) /\ Due(q) = {ok.id} /\ q.pc = "readIndex"
          /\ Lost(q) = IF after = "requeue" THEN Orphans ELSE Orphans \ ({frame} \ {0})
    BY <1>3, <2>1, <2>2, <2>3, <2>5, <2>6, <2>7, ThenBothSerial
  <2>9. Orderly(p) /\ Due(p) = {op[w].id} /\ p.pc = "readIndex" /\ Lost(p) = Orphans
    BY <2>1, <2>6, <2>8
  <2> HIDE DEF p
  <2> QED
    BY <1>1, <2>4, <2>9, IntakeSerial, LocalSerial
<1> QED
  BY <1>2, <1>3

LEMMA RequeueSerial ==
    ASSUME OneWorker, IndInv, SerialInv, NEW w \in Worker, Requeue(w)
    PROVE  SerialInv'
<1> DEFINE existing == Loaded(op[w].id)
           r == IF existing = Absent THEN op[w].record
                ELSE [existing EXCEPT !.status = "DUPLICATE_EVENT"]
           p == ThenQueue(op[w], r, "return")
<1>1. /\ op[w] \in Process /\ Holds(frames, op[w]) /\ Orderly(op[w]) /\ op[w].pc = "requeue"
      /\ op[w].id \in Id /\ op[w].record \in QueueRecord
      /\ UNCHANGED <<frames, index, queue, torn, crashes, raised>>
  BY Alone DEF Requeue, At, Process
<1>2. existing \in QueueRecord /\ Agrees(existing, op[w].id)
  BY <1>1, LoadedAgrees
<1>3. r \in QueueRecord /\ Agrees(r, op[w].id) /\ r.status = "DUPLICATE_EVENT"
  <2>1. CASE existing = Absent
    BY <1>1, <2>1 DEF Orderly, SerialLinks, Holds
  <2>2. CASE existing # Absent
    <3>1. r \in QueueRecord /\ r.frame = existing.frame /\ r.status = "DUPLICATE_EVENT"
      BY <1>2, <2>2 DEF QueueRecord, QueueStatuses
    <3> QED
      BY <1>2, <3>1 DEF Agrees
  <2> QED
    BY <2>1, <2>2
<1>4. Becomes(w, p)
  BY <1>1 DEF Requeue, Holds, AfterIntake
<1> HIDE DEF r
<1>5. Orderly(p) /\ Lost(p) = Orphans /\ Due(p) = {op[w].id} /\ p.pc = "readQueue"
  BY <1>1, <1>3, Alone, IntakeSerial, ThenQueueSerial DEF Settled
<1> HIDE DEF p
<1> QED
  BY <1>1, <1>4, <1>5, IntakeSerial, LocalSerial

LEMMA RouteSerial ==
    ASSUME OneWorker, IndInv, SerialInv, NEW w \in Worker, Route(w)
    PROVE  SerialInv'
<1> DEFINE p == ThenQueue(op[w], Record("ROUTE_RESOLVED", 0), "map")
           q == ThenBoth(op[w], 0, Record("ROUTE_NOT_FOUND", 0), "return")
<1>1. /\ op[w] \in Process /\ op[w].id \in Id /\ op[w].pc = "route"
      /\ UNCHANGED <<frames, index, queue, torn, crashes, raised>>
      /\ Becomes(w, p) \/ Becomes(w, q)
  BY Alone DEF Route, At
<1>2. /\ Record("ROUTE_RESOLVED", 0) \in QueueRecord
      /\ Record("ROUTE_RESOLVED", 0).frame = 0
      /\ Record("ROUTE_RESOLVED", 0).status = "ROUTE_RESOLVED"
      /\ Agrees(Record("ROUTE_RESOLVED", 0), op[w].id)
      /\ Record("ROUTE_NOT_FOUND", 0) \in QueueRecord
      /\ Record("ROUTE_NOT_FOUND", 0).frame = 0
      /\ Record("ROUTE_NOT_FOUND", 0).status = "ROUTE_NOT_FOUND"
  BY RecordType DEF QueueStatuses, Agrees
<1>3. Orderly(p) /\ Lost(p) = Orphans /\ Due(p) = {op[w].id} /\ p.pc = "readQueue"
  BY <1>1, <1>2, Alone, IntakeSerial, ThenQueueSerial
<1>5. Orderly(q) /\ Due(q) = {op[w].id} /\ q.pc = "readIndex" /\ Lost(q) = Orphans
  BY <1>1, <1>2, FramelessSerial
<1> HIDE DEF p, q
<1> QED
  BY <1>1, <1>3, <1>5, IntakeSerial, LocalSerial

\* A process that has run its frame, or has come back.
LEMMA DoneSerial ==
    ASSUME IndInv, SerialInv, NEW w \in Worker, op[w].pc \in {"run", "settle", "return"}
    PROVE  ("index" \in torn => Faults # 0) /\ Lost(op[w]) = Orphans /\ Due(op[w]) = {}
BY Alone DEF Orderly, SerialIndex, Lost, Pending, Dropped, Failing, IndexWrite, Due

LEMMA SettleSerial ==
    ASSUME OneWorker, IndInv, SerialInv, NEW w \in Worker, Settle(w)
    PROVE  SerialInv'
<1> DEFINE q == op[w]
           existing == Loaded(q.id)
           st == IF q.ok THEN "COMPLETED" ELSE "FAILED_EXECUTION"
           r == [existing EXCEPT !.status = st, !.frame = q.frame]
           p == [q EXCEPT !.pc = "return"]
           d == ThenQueue(q, r, "return")
<1>1. /\ q \in Process /\ Orderly(q) /\ q.pc = "settle" /\ q.id \in Id /\ q.frame \in Nat
      /\ UNCHANGED <<frames, index, queue, torn, crashes, raised>>
      /\ Becomes(w, p) \/ Becomes(w, d)
  BY Alone DEF Settle, At, Process
<1>2. existing \in QueueRecord
  BY <1>1, LoadedAgrees
<1>3. r \in QueueRecord /\ r.frame = q.frame /\ r.status = st
  BY <1>1, <1>2 DEF QueueRecord, QueueStatuses
<1>4. Agrees(r, q.id) /\ Settled(r)
  <2>1. /\ q.frame = index[q.id].frame /\ q.frame \in DOMAIN frames
        /\ frames[q.frame].state = IF q.ok THEN "COMPLETED" ELSE "FAILED"
    BY <1>1 DEF Orderly, SerialLinks
  <2>2. q.frame # 0
    BY <2>1 DEF IndInv, TypeOK
  <2> QED
    BY <1>3, <2>1, <2>2 DEF Agrees, Settled
<1>5. p.pc = "return" /\ p.id = q.id /\ p.held = q.held /\ p.queueCopy = q.queueCopy
  BY <1>1 DEF Process
<1>6. Orderly(p) /\ Lost(p) = Orphans
  BY <1>1, <1>5, DoneSerial
     DEF Orderly, SerialIndex, SerialLinks, SerialStatus, Unindexed, Failing, InTry, Fresh,
         QueueWrite, IndexWrite, Lost, Pending, Dropped
<1> HIDE DEF r
<1>7. Orderly(d) /\ Lost(d) = Orphans /\ d.pc = "readQueue"
  BY <1>1, <1>3, <1>4, Alone, DoneSerial, ThenQueueSerial
<1> HIDE DEF p, d
<1> QED
  BY <1>1, <1>5, <1>6, <1>7, DoneSerial, LocalSerial

LEMMA ReturnSerial ==
    ASSUME OneWorker, IndInv, SerialInv, NEW w \in Worker, Return(w)
    PROVE  SerialInv'
<1> DEFINE q == op[w]
<1>1. /\ q \in Process /\ Holds(frames, q) /\ Orderly(q) /\ q.pc = "return" /\ q.id \in Id
      /\ q.held \in QueueRecord /\ Becomes(w, AfterReturn(q))
      /\ UNCHANGED <<frames, index, queue, torn, crashes, raised>>
  BY Alone DEF Return, At, Process
<1>2. IdleProcess \in Process /\ IdleProcess.id \in Id
  BY IdleHolds DEF Process
<1>3. CASE q.held = Absent
  <2>1. AfterReturn(q) = IdleProcess
    BY <1>3 DEF AfterReturn
  <2>2. IdleProcess.pc = "idle" /\ IdleProcess.held = Absent /\ IdleProcess.queueCopy = NoQueue
    BY DEF IdleProcess
  <2>3. PICK p : p = IdleProcess
    OBVIOUS
  <2>4. ("index" \in torn => Faults # 0) /\ Lost(q) = Orphans /\ Due(q) = {}
    BY <1>1, DoneSerial
  <2>5. p.pc = "idle" /\ p.id \in Id /\ p.queueCopy = NoQueue /\ Agrees(p.held, <<p.id[1], 0>>)
    BY <1>2, <2>2, <2>3, NoCopies
  <2>6. Orderly(p) /\ Lost(p) = Orphans
    BY <2>4, <2>5, ReturnedSerial
  <2>7. Becomes(w, p)
    BY <1>1, <2>1, <2>3
  <2> QED
    BY <1>1, <2>4, <2>5, <2>6, <2>7, LocalSerial
<1>4. CASE q.held # Absent
  <2> DEFINE id == <<q.id[1], 0>>
             r == Replayed(q)
             i == [IdleProcess EXCEPT !.id = id]
             p == ThenQueue(i, r, "idle")
  <2>1. id \in Id /\ <<id[1], 0>> = id
    BY <1>1, OriginalId
  <2>2. /\ r \in QueueRecord /\ r.frame = q.held.frame
        /\ r.status \in {"REPLAYED_DRY_RUN", "REPLAY_FAILED"}
    <3> DEFINE st == IF q.ok THEN "REPLAYED_DRY_RUN" ELSE "REPLAY_FAILED"
    <3>1. st \in QueueStatuses /\ st \in {"REPLAYED_DRY_RUN", "REPLAY_FAILED"}
      BY DEF QueueStatuses
    <3>2. q.held.attempts + 1 \in 0..MaxReplays /\ q.frame \in Nat
      BY <1>1, <1>4, EventIntakeAssumption DEF QueueRecord, Holds, Process
    <3>3. r = [q.held EXCEPT !.status = st, !.attempts = q.held.attempts + 1,
                             !.replay = q.frame]
      BY <1>1 DEF Replayed, QueueRecord
    <3> HIDE DEF st, r
    <3> QED
      BY <1>1, <3>1, <3>2, <3>3 DEF QueueRecord
  <2>3. Agrees(r, id) /\ Settled(r)
    BY <1>1, <2>2, Alone DEF Agrees, Settled
  <2>4. i \in Process /\ i.id = id /\ i.held = Absent /\ i.queueCopy = NoQueue
    BY <1>2, <2>1 DEF IdleProcess, Process
  <2>5. Becomes(w, p)
    BY <1>1, <1>4 DEF AfterReturn
  <2>6. ("index" \in torn => Faults # 0) /\ Lost(q) = Orphans /\ Due(q) = {}
    BY <1>1, DoneSerial
  <2> HIDE DEF i, r, q
  <2>7. Orderly(p) /\ Lost(p) = Orphans /\ p.pc = "readQueue"
    BY <2>1, <2>2, <2>3, <2>4, <2>6, NoCopies, ThenQueueSerial
  <2> HIDE DEF p
  <2> QED
    BY <1>1, <2>5, <2>6, <2>7, LocalSerial DEF q
<1> QED
  BY <1>3, <1>4

\* The store.
LEMMA AgreesGrow ==
    ASSUME UNCHANGED index, NEW r, NEW id, Agrees(r, id),
           \A f \in DOMAIN frames : /\ f \in DOMAIN frames'
                                    /\ frames[f].state # "CREATED" => frames'[f] = frames[f]
    PROVE  Agrees(r, id)'
BY DEF Agrees

LEMMA CreateFrameSerial ==
    ASSUME OneWorker, IndInv, SerialInv, NEW w \in Worker, CreateFrame(w)
    PROVE  SerialInv'
<1>1. PICK q \in Process : q = op[w]
  BY Alone
<1>2. PICK frame \in Nat : frame = Len(frames) + 1 /\ frame # 0
  <2>1. Len(frames) \in Nat
    BY DEF IndInv, TypeOK
  <2> QED
    BY <2>1
<1> DEFINE r == Record("FRAME_CREATED", frame)
           ok == [q EXCEPT !.ok = TRUE]
           b == ThenBoth(ok, frame, r, "return")
<1>3. PICK after \in {"requeue", "run", "return"} : after = AfterIntake(b) /\ after # "requeue"
  BY DEF AfterIntake
<1>4. PICK p : p = ThenBoth(ok, frame, r, after)
  OBVIOUS
<1>5. /\ q.pc = "map" /\ q.id \in Id
      /\ frames' = Append(frames, [event |-> q.id, state |-> "CREATED"])
      /\ UNCHANGED <<index, queue, torn, crashes, raised>>
  BY <1>1, Alone DEF CreateFrame, At
<1>6. ok \in Process /\ ok.id = q.id /\ ok.held = q.held /\ ok.queueCopy = q.queueCopy
  BY DEF Process
<1>7. Becomes(w, p)
  <2>1. Becomes(w, [b EXCEPT !.after = AfterIntake(b)])
    BY <1>1, <1>2 DEF CreateFrame
  <2> HIDE DEF ok, r
  <2>2. [b EXCEPT !.after = after] = p
    BY <1>4, <1>6 DEF ThenBoth, Process
  <2> QED
    BY <1>3, <2>1, <2>2
<1>8. r \in QueueRecord /\ r.frame = frame /\ r.status = "FRAME_CREATED"
  BY RecordType DEF QueueStatuses
<1>9. /\ "index" \notin torn /\ ~index[q.id].seen /\ index[q.id].frame = 0
      /\ queue[q.id].frame = 0 /\ Lost(q) = Orphans /\ Due(q) = {q.id}
  BY <1>1, <1>5, IntakeSerial
<1>10. /\ Agrees(ok.held, <<ok.id[1], 0>>)
       /\ \A id \in Id : ok.queueCopy[id] \in {queue[id], Absent}
  BY <1>1, <1>6, Alone
<1> HIDE DEF ok, r
<1>11. /\ Orderly(p) /\ Due(p) = {q.id} /\ p.pc = "readIndex"
  BY <1>2, <1>3, <1>4, <1>6, <1>8, <1>9, <1>10, ThenBothSerial
<1>12. p.frame = frame /\ p.after = after /\ p.record.status = "FRAME_CREATED" /\ p.id = q.id
  BY <1>4, <1>6, <1>8 DEF ThenBoth, Process
<1>13. /\ DOMAIN frames = 1..Len(frames) /\ DOMAIN frames' = 1..frame /\ Len(frames) \in Nat
       /\ \A f \in DOMAIN frames : f \in DOMAIN frames' /\ frames'[f] = frames[f]
  <2>1. frames \in Seq(FrameRecord) /\ [event |-> q.id, state |-> "CREATED"] \in FrameRecord
    BY <1>5 DEF IndInv, TypeOK, FrameRecord, FrameStates
  <2> QED
    BY <1>2, <1>5, <2>1
<1>14. \A s, id : Agrees(s, id) => Agrees(s, id)'
  BY <1>5, <1>13, AgreesGrow
<1>15. SerialIndex(p)' /\ SerialStatus(p)'
  BY <1>5, <1>11 DEF Orderly, SerialIndex, SerialStatus, Unindexed, Failing, InTry, QueueWrite,
                     IndexWrite, Faults
<1>16. SerialLinks(p)'
  BY <1>5, <1>11, <1>14 DEF Orderly, SerialLinks, Fresh, QueueWrite, IndexWrite
<1>17. Lost(p)' = Lost(q)
  <2>1. Orphans' \ {frame} = Orphans
    BY <1>2, <1>5, <1>13 DEF Orphans
  <2>2. Lost(p)' = Orphans' \ {frame}
    BY <1>2, <1>3, <1>11, <1>12 DEF Lost, Pending, Dropped, Failing, IndexWrite
  <2> QED
    BY <1>9, <2>1, <2>2
<1>18. (Unsettled \ Due(p))' = Unsettled \ Due(q)
  <2>1. Due(p)' = Due(p) /\ Unsettled' = Unsettled
    BY <1>5 DEF Due, QueueWrite, Unsettled, Settled
  <2> QED
    BY <1>9, <1>11, <2>1
<1>19. SerialCounts(p)'
  BY <1>1, <1>5, <1>9, <1>11, <1>17, <1>18, CountsStep
<1>20. QueueAgrees' /\ (\A id \in Id : index[id].frame # 0 => index[id].seen)'
  BY <1>5, <1>14 DEF SerialInv, QueueAgrees
<1> QED
  BY <1>7, <1>15, <1>16, <1>19, <1>20, StepSerial DEF Orderly

LEMMA RunSerial ==
    ASSUME OneWorker, IndInv, SerialInv, NEW w \in Worker, Run(w)
    PROVE  SerialInv'
<1>1. PICK q \in Process : q = op[w]
  BY Alone
<1>2. PICK st \in FrameStates \ {"CREATED"} :
          /\ frames' = [frames EXCEPT ![q.frame].state = st]
          /\ Becomes(w, [q EXCEPT !.pc = IF st = "RAISED" THEN "return" ELSE "settle",
                                  !.ok = (st = "COMPLETED")])
  BY <1>1 DEF Run
<1>3. PICK pc \in {"return", "settle"}, ok \in BOOLEAN :
          (pc = "settle" => st = IF ok THEN "COMPLETED" ELSE "FAILED")
          /\ Becomes(w, [q EXCEPT !.pc = pc, !.ok = ok])
  <2> DEFINE pc == IF st = "RAISED" THEN "return" ELSE "settle"
             ok == (st = "COMPLETED")
  <2>1. pc \in {"return", "settle"} /\ ok \in BOOLEAN
    OBVIOUS
  <2>2. pc = "settle" => st = IF ok THEN "COMPLETED" ELSE "FAILED"
    BY <1>2 DEF FrameStates
  <2> QED
    BY <1>2, <2>1, <2>2
<1>4. PICK p : p = [q EXCEPT !.pc = pc, !.ok = ok]
  OBVIOUS
<1>5. /\ q.pc = "run" /\ Orderly(q) /\ Becomes(w, p)
      /\ UNCHANGED <<index, queue, torn, crashes, raised>>
  BY <1>1, <1>3, <1>4, Alone DEF Run, At
<1>6. /\ p.pc = pc /\ p.frame = q.frame /\ p.record = q.record /\ p.ok = ok
      /\ p.id = q.id /\ p.held = q.held /\ p.after = q.after
      /\ p.indexCopy = q.indexCopy /\ p.queueCopy = q.queueCopy
  BY <1>4 DEF Process
<1>7. FramesGrow /\ DOMAIN frames' = DOMAIN frames /\ q.frame \in DOMAIN frames
      /\ frames[q.frame].state = "CREATED"
      /\ \A g \in DOMAIN frames \ {q.frame} : frames'[g] = frames[g]
  <2>1. DOMAIN frames' = DOMAIN frames
    BY <1>2
  <2> QED
    BY <1>1, <2>1, RunFrame
<1>8. frames'[q.frame].state = st
  <2>1. frames \in Seq(FrameRecord)
    BY DEF IndInv, TypeOK, FrameRecord
  <2>2. frames[q.frame] \in FrameRecord
    BY <1>7, <2>1
  <2> QED
    BY <1>2, <1>7, <2>2 DEF FrameRecord
<1>9. \A r, id : Agrees(r, id) => Agrees(r, id)'
  BY <1>5, <1>7, AgreesGrow
<1>10. SerialIndex(p)' /\ SerialStatus(p)'
  BY <1>5, <1>6 DEF Orderly, SerialIndex, SerialStatus, Unindexed, Failing, InTry, QueueWrite,
                    IndexWrite, Faults
<1>11. SerialLinks(p)'
  BY <1>3, <1>5, <1>6, <1>7, <1>8, <1>9 DEF Orderly, SerialLinks, Fresh, QueueWrite, IndexWrite
<1>12. Lost(p)' = Lost(q)
  <2>1. Orphans' = Orphans
    BY <1>5, <1>7 DEF Orphans, FramesGrow
  <2> QED
    BY <1>5, <1>6, <2>1 DEF Lost, Pending, Dropped, Failing, IndexWrite
<1>13. (Unsettled \ Due(p))' = Unsettled \ Due(q)
  <2>1. Due(p)' = {} /\ Due(q) = {} /\ Unsettled' = Unsettled
    BY <1>5, <1>6 DEF Due, QueueWrite, Unsettled, Settled
  <2> QED
    BY <2>1
<1>14. SerialCounts(p)'
  BY <1>1, <1>5, <1>6, <1>12, <1>13, CountsStep
<1>15. QueueAgrees' /\ (\A id \in Id : index[id].frame # 0 => index[id].seen)'
  BY <1>5, <1>9 DEF SerialInv, QueueAgrees
<1> QED
  BY <1>5, <1>10, <1>11, <1>14, <1>15, StepSerial DEF Orderly

\* A process that has given up for a crash or an exception.
LEMMA GivenUpSerial ==
    ASSUME NEW p, p.pc \in {"idle", "return"}, p.id \in Id, p.queueCopy = NoQueue,
           Agrees(p.held, <<p.id[1], 0>>), UNCHANGED <<frames, index, queue, torn>>, Faults' # 0
    PROVE  Orderly(p)' /\ Lost(p) = Orphans /\ Due(p) = {}
<1>1. Agrees(p.held, <<p.id[1], 0>>)'
  BY DEF Agrees
<1>2. Orderly(p)'
  BY <1>1, NoCopies DEF Orderly, SerialIndex, SerialLinks, SerialStatus, Unindexed, Failing, InTry,
                        Fresh, QueueWrite, IndexWrite
<1>3. Lost(p) = Orphans
  BY DEF Lost, Pending, Dropped, Failing, IndexWrite
<1> QED
  BY <1>2, <1>3 DEF Due

\* What a process has in hand is one frame and one event at most.
LEMMA InHand ==
    ASSUME NEW p
    PROVE  Orphans \subseteq Lost(p) \cup {p.frame} /\ Due(p) \subseteq {p.id}
BY DEF Lost, Pending, Due

LEMMA CrashSerial ==
    ASSUME OneWorker, IndInv, SerialInv, NEW w \in Worker, Crash(w)
    PROVE  SerialInv'
<1>1. PICK p : p = IdleProcess
  OBVIOUS
<1>2. /\ p.pc = "idle" /\ p.id \in Id /\ p.queueCopy = NoQueue
      /\ Agrees(p.held, <<p.id[1], 0>>)
  BY <1>1, IdleHolds, NoCopies DEF IdleProcess, Process
<1>3. /\ Becomes(w, p) /\ UNCHANGED <<frames, index, queue, torn>>
      /\ Faults' = Faults + 1 /\ Faults' # 0
  BY <1>1 DEF Crash, IndInv, TypeOK, Faults
<1>4. Orderly(p)' /\ Lost(p) = Orphans
  BY <1>2, <1>3, GivenUpSerial
<1>5. PICK f : f = op[w].frame
  OBVIOUS
<1>6. PICK id : id = op[w].id
  OBVIOUS
<1>7. Lost(p) \subseteq Lost(op[w]) \cup {f} /\ Due(op[w]) \subseteq Due(p) \cup {id}
  BY <1>4, <1>5, <1>6, InHand
<1> QED
  BY <1>2, <1>3, <1>4, <1>7, FaultSerial

LEMMA RaisesSerial ==
    ASSUME OneWorker, IndInv, SerialInv, NEW w \in Worker, Raises(w)
    PROVE  SerialInv'
<1>1. PICK q \in Process : q = op[w]
  BY Alone
<1>2. PICK p : p = Thrown(q)
  OBVIOUS
<1>3. /\ Orderly(q) /\ q.id \in Id /\ Becomes(w, p) /\ Agrees(q.held, <<q.id[1], 0>>)
      /\ UNCHANGED <<frames, index, queue, torn>>
  BY <1>1, <1>2, Alone DEF Raises, Throw
<1>4. Faults' = Faults + 1 /\ Faults' # 0 /\ raised' > 0
  BY DEF Raises, IndInv, TypeOK, Faults
<1>5. p.id = q.id /\ p.held = q.held /\ p.queueCopy = NoQueue
  BY <1>2, ThrownFields
<1>6. PICK f : f = IF InTry(q) /\ QueueWrite(q) THEN index[q.id].frame ELSE q.frame
  OBVIOUS
<1>7. PICK id : id = q.id
  OBVIOUS
<1>8. Due(q) \subseteq Due(p) \cup {id}
  BY <1>7, InHand
<1>9. CASE ~InTry(q)
  <2>1. p.pc = "return"
    BY <1>2, <1>9, ThrownFields
  <2>2. Orderly(p)' /\ Lost(p) = Orphans
    BY <1>3, <1>4, <1>5, <2>1, GivenUpSerial
  <2>3. Lost(p) \subseteq Lost(q) \cup {f}
    BY <1>6, <1>9, <2>2, InHand
  <2> QED
    BY <1>1, <1>3, <1>4, <1>8, <2>1, <2>2, <2>3, FaultSerial
<1>10. CASE InTry(q)
  <2>1. p.pc = "readIndex" /\ p.frame = 0 /\ p.record = FailedRecord /\ p.after = "return"
    BY <1>2, <1>10, ThrownFields
  <2>2. FailedRecord.status = "FAILED_EXECUTION" /\ FailedRecord.frame = 0
    BY RecordType DEF FailedRecord, QueueStatuses
  <2>3. queue[q.id].frame = 0
    BY <1>3, <1>10 DEF Orderly, SerialIndex, SerialLinks, InTry, Fresh, QueueWrite, IndexWrite
  <2>4. SerialIndex(p)' /\ SerialStatus(p)'
    BY <1>4, <2>1, <2>2 DEF SerialIndex, SerialStatus, Unindexed, Failing, InTry, QueueWrite,
                            IndexWrite, Settled
  <2>5. SerialLinks(p)'
    <3>1. Agrees(p.held, <<p.id[1], 0>>)'
      BY <1>3, <1>5 DEF Agrees
    <3> QED
      BY <1>3, <1>5, <2>1, <2>2, <2>3, <3>1, NoCopies DEF SerialLinks, Fresh, QueueWrite, IndexWrite
  <2>6. Lost(p) \subseteq Lost(q) \cup {f}
    <3>1. Lost(p) = Orphans \cup ({index[q.id].frame} \ {0})
      BY <1>5, <2>1, <2>2 DEF Lost, Pending, Dropped, Failing, IndexWrite
    <3>2. CASE QueueWrite(q)
      <4>1. Pending(q) = {}
        BY <3>2 DEF Pending, QueueWrite, IndexWrite
      <4> QED
        BY <1>6, <1>10, <3>1, <3>2, <4>1 DEF Lost
    <3>3. CASE ~QueueWrite(q)
      <4>1. Unindexed(q)
        BY <1>3, <1>10, <3>3 DEF InTry, QueueWrite, IndexWrite, Unindexed, Failing, Orderly,
                                 SerialIndex
      <4>2. index[q.id].frame = 0
        BY <1>3, <4>1 DEF Orderly, SerialIndex, SerialInv
      <4> QED
        BY <1>6, <3>1, <3>3, <4>2, InHand
    <3> QED
      BY <3>2, <3>3
  <2> QED
    BY <1>1, <1>3, <1>4, <1>8, <2>1, <2>4, <2>5, <2>6, FaultSerial DEF Orderly
<1> QED
  BY <1>9, <1>10

LEMMA SerialInit == Init => SerialInv
<1> SUFFICES ASSUME Init PROVE SerialInv
  OBVIOUS
<1>1. /\ frames = <<>> /\ index = NoIndex /\ queue = NoQueue /\ torn = {} /\ Faults = 0
      /\ \A w \in Worker : op[w] = IdleProcess
  BY DEF Init, Faults
<1>2. PICK p : p = IdleProcess
  OBVIOUS
<1>3. /\ p.pc = "idle" /\ p.id \in Id /\ p.queueCopy = NoQueue
      /\ Agrees(p.held, <<p.id[1], 0>>)
  BY <1>2, IdleHolds, NoCopies DEF IdleProcess, Process
<1>4. Orderly(p) /\ Lost(p) = Orphans
  BY <1>1, <1>3, ReturnedSerial
<1>5. QueueAgrees /\ \A id \in Id : index[id].frame = 0
  BY <1>1, NoCopies DEF QueueAgrees, NoIndex, NotSeen
<1>6. Orphans = {} /\ Unsettled \ Due(p) = {}
  BY <1>1, NoCopies DEF Orphans, Unsettled
<1>7. SerialCounts(p)
  BY <1>1, <1>4, <1>6, FS_EmptySet DEF SerialCounts
<1>8. Serial(p)
  BY <1>4, <1>7 DEF Serial, Orderly
<1> QED
  BY <1>1, <1>2, <1>5, <1>8 DEF SerialInv

LEMMA SerialNext ==
    ASSUME OneWorker, IndInv, SerialInv, [Next]_vars
    PROVE  SerialInv'
<1>1. ASSUME NEW w \in Worker, Command(w) PROVE SerialInv'
  BY <1>1, CommandSerial
<1>2. ASSUME NEW w \in Worker, Progress(w) PROVE SerialInv'
  BY <1>2, ReadQueueSerial, OpenQueueSerial, DumpQueueSerial, ReadIndexSerial, OpenIndexSerial,
     DumpIndexSerial, RefuseSerial, CheckSerial, DuplicateSerial, RequeueSerial, RouteSerial,
     CreateFrameSerial, RunSerial, SettleSerial, ReturnSerial DEF Progress
<1>3. ASSUME NEW w \in Worker, Raises(w) \/ Crash(w) PROVE SerialInv'
  BY <1>3, RaisesSerial, CrashSerial
<1>4. CASE UNCHANGED vars
  <2>1. UNCHANGED <<frames, index, queue, torn, op, crashes, raised>>
    BY <1>4 DEF vars
  <2>2. PICK w \in Worker : TRUE
    BY DEF OneWorker
  <2>3. PICK p : p = op[w]
    OBVIOUS
  <2>4. Becomes(w, p)
    BY <2>1, <2>3 DEF Becomes, IndInv, TypeOK
  <2>5. Orderly(p) /\ SerialCounts(p)
    BY <2>3, Alone
  <2>6. /\ Orderly(p)' /\ Lost(p)' = Lost(p) /\ (Unsettled \ Due(p))' = Unsettled \ Due(p)
        /\ QueueAgrees' /\ (\A id \in Id : index[id].frame # 0 => index[id].seen)'
    BY <2>1, <2>5, StaySerial
  <2>7. SerialCounts(p)'
    BY <2>1, <2>3, <2>6, CountsStep
  <2> QED
    BY <2>4, <2>6, <2>7, StepSerial
<1> QED
  BY <1>1, <1>2, <1>3, <1>4 DEF Next

(***************************************************************************)
(* Theorems.                                                                *)
(***************************************************************************)

\* The inductive invariant holds in every reachable state: copies of the indexes
\* that are about to be written link as rightly as the files (event_store.py,
\* event_queue.py).
THEOREM InvariantCorrect == Spec => []IndInv
<1> QED
  BY InvInit, InvNext, PTL DEF Spec

\* Every variable keeps its type.
THEOREM TypeCorrect == Spec => []TypeOK
<1>1. IndInv => TypeOK
  BY DEF IndInv
<1> QED
  BY <1>1, InvariantCorrect, PTL

\* The event index and the queue never name a frame that does not exist or that
\* another event started, whatever overlaps, crashes and raises (upsert_event_index(),
\* write_queue_record()).
THEOREM LinksCorrect == Spec => []LinksExist
<1>1. IndInv => LinksExist
  BY DEF IndInv
<1> QED
  BY <1>1, InvariantCorrect, PTL

\* The steps that write the index or a frame.
LEMMA OtherSteps ==
    ASSUME [Next]_vars
    PROVE  /\ UNCHANGED index \/ \E w \in Worker : DumpIndex(w)
           /\ UNCHANGED frames \/ \E w \in Worker : CreateFrame(w) \/ Run(w)
BY DEF vars, Next, Command, Progress, Raises, Crash, Deliver, Replay, ReadQueue, OpenQueue,
   DumpQueue, ReadIndex, OpenIndex, Invalid, Check, Duplicate, Requeue, Route, Unmappable,
   DumpIndex, CreateFrame, Run, Settle, Return

\* A new frame leaves the others as they are.
LEMMA CreateFrameKeeps ==
    ASSUME IndInv, NEW w \in Worker, CreateFrame(w), NEW f \in DOMAIN frames
    PROVE  frames'[f] = frames[f]
<1>1. frames \in Seq(FrameRecord) /\ [event |-> op[w].id, state |-> "CREATED"] \in FrameRecord
  BY Mine DEF IndInv, TypeOK, FrameRecord, FrameStates, Process
<1>2. frames' = Append(frames, [event |-> op[w].id, state |-> "CREATED"])
  BY DEF CreateFrame
<1> QED
  BY <1>1, <1>2

\* A frame that has been run is not run again (intake_and_run_event()).
THEOREM RunOnceCorrect == Spec => RunOnce
<1>1. IndInv /\ [Next]_vars =>
         [\A f \in DOMAIN frames : frames[f].state # "CREATED" => frames'[f] = frames[f]]_frames
  <2> SUFFICES ASSUME IndInv, [Next]_vars, frames' # frames,
                      NEW f \in DOMAIN frames, frames[f].state # "CREATED"
               PROVE  frames'[f] = frames[f]
    OBVIOUS
  <2>1. PICK w \in Worker : CreateFrame(w) \/ Run(w)
    BY OtherSteps
  <2> QED
    BY <2>1, CreateFrameKeeps, RunFrame
<1> QED
  BY <1>1, InvariantCorrect, PTL DEF Spec, RunOnce

\* One worker: its copies are the files, what it has in hand agrees with them, and
\* every lost frame and every unsettled event is one of a crash or an exception
\* (intake_event(), intake_and_run_event()).
THEOREM SerialCorrect ==
    ASSUME OneWorker
    PROVE  Spec => []SerialInv
<1>1. Init => IndInv /\ SerialInv
  BY InvInit, SerialInit
<1>2. IndInv /\ SerialInv /\ [Next]_vars => IndInv' /\ SerialInv'
  BY InvNext, SerialNext
<1> QED
  BY <1>1, <1>2, PTL DEF Spec

\* What SerialInv says when the only process is idle.
LEMMA IdleSerial ==
    ASSUME OneWorker, IndInv, SerialInv, AllIdle
    PROVE  /\ Cardinality(Orphans) <= Faults
           /\ IF "index" \in torn THEN Faults # 0 ELSE Cardinality(Unsettled) <= Faults
<1>1. PICK w \in Worker : TRUE
  BY DEF OneWorker
<1>2. PICK p : p = op[w]
  OBVIOUS
<1>3. p.pc = "idle" /\ SerialIndex(p) /\ SerialCounts(p)
  BY <1>2, Alone DEF Orderly, AllIdle, At
<1>4. Lost(p) = Orphans /\ Due(p) = {}
  BY <1>3 DEF Lost, Pending, Dropped, Failing, IndexWrite, Due
<1>5. Unsettled \ Due(p) = Unsettled
  BY <1>4
<1> QED
  BY <1>3, <1>4, <1>5 DEF SerialIndex, SerialCounts

\* One worker: the store has no more frames that the index does not know, and no event
\* more frames beside its first, than there were crashes and exceptions, however often
\* events are delivered and replayed; and only those leave an index that cannot be read
\* (upsert_event_index(), save_event_index()).
THEOREM OrphansCorrect ==
    ASSUME OneWorker
    PROVE  Spec => []OrphansByFaultsOnly
<1>1. IndInv /\ SerialInv => OrphansByFaultsOnly
  <2> SUFFICES ASSUME IndInv, SerialInv, AllIdle
               PROVE  /\ IF "index" \in torn THEN Faults > 0 ELSE Cardinality(Orphans) <= Faults
                      /\ \A id \in Id : Cardinality(FramesOf(id)) <= 1 + Faults
    BY DEF OrphansByFaultsOnly
  <2>1. Faults \in Nat /\ IsFiniteSet(Orphans) /\ Cardinality(Orphans) <= Faults
    BY FaultsType, LostFinite, IdleSerial
  <2>2. ASSUME NEW id \in Id PROVE Cardinality(FramesOf(id)) <= 1 + Faults
    <3>1. PICK f : f = index[id].frame
      OBVIOUS
    <3>2. FramesOf(id) \subseteq Orphans \cup {f}
      BY <3>1 DEF FramesOf, Orphans
    <3>3. Cardinality(FramesOf(id)) <= Faults + 1
      BY <2>1, <3>2, OneMore
    <3> QED
      BY <2>1, <3>3
  <2>3. "index" \in torn => Faults > 0
    BY <2>1, IdleSerial
  <2> QED
    BY <2>1, <2>2, <2>3
<1> QED
  BY <1>1, InvariantCorrect, SerialCorrect, PTL

\* One worker: the frame a queue record names is the one the index names, an event
\* reported as started or completed has one, and a run reported as completed or failed
\* ended so; a record without a link may still replace one that had it
\* (write_queue_record()).
THEOREM QueueAgreesCorrect ==
    ASSUME OneWorker
    PROVE  Spec => []QueueAgrees
<1>1. SerialInv => QueueAgrees
  BY DEF SerialInv
<1> QED
  BY <1>1, SerialCorrect, PTL

\* One worker: while the index can be read, no more events are left in an intermediate
\* status than there were crashes and exceptions (intake_event()).
THEOREM QueueSettledCorrect ==
    ASSUME OneWorker
    PROVE  Spec => []QueueSettled
<1>1. IndInv /\ SerialInv => QueueSettled
  BY IdleSerial DEF QueueSettled
<1> QED
  BY <1>1, InvariantCorrect, SerialCorrect, PTL

\* One worker: from one readable index to the next, the link of an event to its frame is
\* not moved, and is taken away by the entry of an exception only (upsert_event_index()).
THEOREM LinkStaysCorrect ==
    ASSUME OneWorker
    PROVE  Spec => LinkStays
<1>1. IndInv /\ SerialInv /\ [Next]_vars =>
         [\A id \in Id :
             index[id].frame # 0 /\ index'[id].frame # index[id].frame =>
                 /\ raised > 0 /\ index'[id].frame = 0
                 /\ \E w \in Worker : Failing(op[w]) /\ op[w].id = id]_index
  <2> SUFFICES ASSUME IndInv, SerialInv, [Next]_vars, index' # index, NEW id \in Id,
                      index[id].frame # 0, index'[id].frame # index[id].frame
               PROVE  /\ raised > 0 /\ index'[id].frame = 0
                      /\ \E w \in Worker : Failing(op[w]) /\ op[w].id = id
    OBVIOUS
  <2>1. PICK w \in Worker : DumpIndex(w)
    BY OtherSteps
  <2>2. id = op[w].id /\ Failing(op[w]) /\ raised > 0 /\ index'[id].frame = 0
    BY <2>1, IndexStep
  <2> QED
    BY <2>2
<1> QED
  BY <1>1, InvariantCorrect, SerialCorrect, PTL DEF Spec, LinkStays

\* One worker: a replay of an event leaves its index entry and its frames as they are
\* (replay_event_dry_run()).
THEOREM ReplayCorrect ==
    ASSUME OneWorker
    PROVE  Spec => ReplayLeavesOriginal
<1> DEFINE Leaves == \A w \in Worker : Replaying(w) =>
                       LET id == <<op[w].id[1], 0>> IN
                         /\ index'[id] = index[id]
                         /\ \A f \in DOMAIN frames : frames[f].event = id => frames'[f] = frames[f]
<1>1. IndInv /\ SerialInv /\ [Next]_vars => [Leaves]_vars
  <2> SUFFICES ASSUME IndInv, SerialInv, [Next]_vars, NEW w \in Worker, Replaying(w)
               PROVE  LET id == <<op[w].id[1], 0>> IN
                        /\ index'[id] = index[id]
                        /\ \A f \in DOMAIN frames : frames[f].event = id => frames'[f] = frames[f]
    OBVIOUS
  <2> DEFINE id == <<op[w].id[1], 0>>
  <2>1. \A v \in Worker : v = w
    BY DEF OneWorker
  \* The event taken in by a replay is another one.
  <2>2. id \in Id /\ id # op[w].id
    <3>1. op[w].id \in Id /\ op[w].id[2] > 0
      BY Mine, Alone DEF Replaying, Holds
    <3>2. op[w].id[2] # 0
      BY <3>1 DEF Id
    <3> QED
      BY <3>1, <3>2, OriginalId
  <2>3. index'[id] = index[id]
    BY <2>1, <2>2, OtherSteps, IndexStep
  <2>4. ASSUME NEW f \in DOMAIN frames, frames[f].event = id PROVE frames'[f] = frames[f]
    <3>1. CASE CreateFrame(w)
      BY <3>1, CreateFrameKeeps
    <3>2. CASE Run(w)
      <4>1. op[w].frame \in DOMAIN frames /\ frames[op[w].frame].state = "CREATED"
            /\ \A g \in DOMAIN frames \ {op[w].frame} : frames'[g] = frames[g]
        BY <3>2, RunFrame
      <4>2. op[w].frame # 0
        BY <4>1 DEF IndInv, TypeOK
      <4>3. frames[op[w].frame].event = op[w].id
        BY <4>2, Mine DEF Holds, Links
      <4> QED
        BY <2>2, <2>4, <4>1, <4>3
    <3> QED
      BY <2>1, <3>1, <3>2, OtherSteps
  <2> QED
    BY <2>3, <2>4
<1> HIDE DEF Leaves
<1>2. Spec => [][Leaves]_vars
  BY <1>1, InvariantCorrect, SerialCorrect, PTL DEF Spec
<1> QED
  BY <1>2 DEF ReplayLeavesOriginal, Leaves

=============================================================================
