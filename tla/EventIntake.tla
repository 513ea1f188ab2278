----------------------------- MODULE EventIntake -----------------------------
(***************************************************************************)
(* Events from outside and the TaskFrames they start: intake_event() and    *)
(* intake_and_run_event() (runtime/event_store.py), the queue records and   *)
(* replay_event_dry_run() (runtime/event_queue.py).                         *)
(*                                                                         *)
(* The event index and the queue index are two JSON files.  Both are read,  *)
(* changed in memory and written again from the start, by open("w") and     *)
(* json.dump, with no lock and no temporary file; between the two calls the *)
(* file cannot be parsed.  A worker is a process that takes in one event,   *)
(* or replays one, after the other; it may crash anywhere, and what it does *)
(* with files and data it did not make may raise.                           *)
(*                                                                         *)
(* X_Faulty is a plausible bug in X, as in Orchestrator.                     *)
(***************************************************************************)
EXTENDS Integers, Sequences, FiniteSets

CONSTANTS
    Worker,
    Event,          \* the events that sources deliver, possibly more than once
    MaxReplays,     \* bound on the attempt_count a replay is started with
    MaxCommands,    \* bound on the deliveries and replays
    MaxCrashes,     \* bound on the crashes
    MaxRaises       \* bound on the exceptions, but for those of a torn index

ASSUME EventIntakeAssumption ==
    /\ Event # {}
    /\ MaxReplays \in Nat /\ MaxCommands \in Nat
    /\ MaxCrashes \in Nat /\ MaxRaises \in Nat

\* <<e, 0>> is the event_id of e, <<e, n>> is "{event_id}_replay_{n}".
Id == Event \X (0..MaxReplays)

QueueStatuses ==
    { "ABSENT", "RECEIVED", "ROUTE_RESOLVED", "ROUTE_NOT_FOUND", "FRAME_CREATED",
      "COMPLETED", "FAILED_EXECUTION", "DUPLICATE_EVENT", "REPLAYED_DRY_RUN",
      "REPLAY_FAILED" }

\* A frame is named by its place in the store; 0: None.  seen: the event has an entry.
IndexEntry == [seen : BOOLEAN, frame : Nat]

QueueRecord == [status : QueueStatuses, frame : Nat, attempts : 0..MaxReplays, replay : Nat]

\* COMPLETED and FAILED stand for the states a run reports as ok and not ok, in a
\* frame and in the queue; RAISED for the state in which a run that raised was saved.
FrameStates == {"CREATED", "COMPLETED", "FAILED", "RAISED"}

VARIABLES
    frames,     \* the frames of the store, in the order they were created
    ledger,     \* the event ids that have a line in events.jsonl
    index,      \* the last complete text of event_index.json
    queue,      \* the last complete text of event_queue_index.json
    torn,       \* the files that cannot be parsed: nothing of that text is left in them
    op,         \* what every worker is doing
    commands,
    crashes,
    raised

vars == <<frames, ledger, index, queue, torn, op, commands, crashes, raised>>

NotSeen == [seen |-> FALSE, frame |-> 0]

\* build_queue_record()
Record(status, frame) == [status |-> status, frame |-> frame, attempts |-> 0, replay |-> 0]

NoIndex == [id \in Id |-> NotSeen]

NoQueue == [id \in Id |-> Record("ABSENT", 0)]

\* A process: where it is, the event it takes in, whether it then runs the frame,
\* the frame and the verdict of its result; the queue record it writes next, and
\* where it goes after that; the copies of the two files it has read; and, for a
\* replay, the event's queue record as it was loaded at the start.
Process ==
    [ pc : {"idle", "readQueue", "openQueue", "dumpQueue", "readIndex", "openIndex",
            "dumpIndex", "check", "duplicate", "requeue", "route", "map", "run", "settle", "return"},
      id : Id, run : BOOLEAN, frame : Nat, ok : BOOLEAN,
      record : QueueRecord,
      after : {"idle", "check", "requeue", "map", "run", "return"},
      indexCopy : [Id -> IndexEntry], queueCopy : [Id -> QueueRecord],
      held : QueueRecord ]

Absent == Record("ABSENT", 0)

\* What a process that takes in nothing is said to take in.
AnyId == CHOOSE id \in Event \X {0} : TRUE

IdleProcess ==
    [ pc |-> "idle", id |-> AnyId, run |-> FALSE, frame |-> 0,
      ok |-> FALSE, record |-> Absent, after |-> "idle",
      indexCopy |-> NoIndex, queueCopy |-> NoQueue, held |-> Absent ]

Init == /\ frames = <<>>
        /\ ledger = {}
        /\ index = NoIndex
        /\ queue = NoQueue
        /\ torn = {}
        /\ op = [w \in Worker |-> IdleProcess]
        /\ commands = 0
        /\ crashes = 0
        /\ raised = 0

-----------------------------------------------------------------------------
(* Helpers *)

At(w, pc) == op[w].pc = pc

Becomes(w, p) == op' = [op EXCEPT ![w] = p]

Logged(w) == ledger' = ledger \cup {op[w].id}

\* The next thing p does is write_queue_record(record).
ThenQueue(p, record, after) ==
    [p EXCEPT !.pc = "readQueue", !.record = record, !.after = after]

\* The next things p does are upsert_event_index(), with frame as the linked frame,
\* and write_queue_record().
ThenBoth(p, frame, record, after) ==
    [p EXCEPT !.pc = "readIndex", !.frame = frame, !.record = record, !.after = after]

Replaying(w) == op[w].held # Absent

FailedRecord_Faulty == Record("RECEIVED", 0)

FailedRecord == Record("FAILED_EXECUTION", 0)

\* p has saved its frame and is still inside the try of intake_event().
InTry(p) ==
    /\ p.record.status = "FRAME_CREATED"
    /\ p.pc \in {"readIndex", "openIndex", "dumpIndex", "readQueue", "openQueue", "dumpQueue"}

\* An exception inside the try ends in the FAILED entry, which links no frame; any
\* other one leaves intake_and_run_event(), and only a replay catches it, as a failure.
Thrown(p) ==
    LET q == [p EXCEPT !.ok = FALSE, !.indexCopy = NoIndex, !.queueCopy = NoQueue] IN
      IF InTry(p) THEN ThenBoth(q, 0, FailedRecord, "return")
                  ELSE [q EXCEPT !.pc = "return", !.frame = 0]

Throw(w) ==
    /\ Becomes(w, Thrown(op[w]))
    /\ IF InTry(op[w]) THEN Logged(w) ELSE UNCHANGED ledger

-----------------------------------------------------------------------------
(* The two files *)

\* _update_queue_index() takes a file it cannot parse for an empty one.
ReadQueue(w) ==
    /\ At(w, "readQueue")
    /\ Becomes(w, [op[w] EXCEPT !.pc = "openQueue",
                                !.queueCopy = IF "queue" \in torn THEN NoQueue ELSE queue])
    /\ UNCHANGED <<frames, ledger, index, queue, torn, commands, crashes, raised>>

OpenQueue(w) ==
    /\ At(w, "openQueue")
    /\ torn' = torn \cup {"queue"}
    /\ Becomes(w, [op[w] EXCEPT !.pc = "dumpQueue"])
    /\ UNCHANGED <<frames, ledger, index, queue, commands, crashes, raised>>

\* When another process has written the file since this one opened it, the two
\* texts may overlap.
TornAfter(file) == IF file \in torn THEN {torn \ {file}} ELSE {torn, torn \cup {file}}

QueueWritten(w) == [op[w].queueCopy EXCEPT ![op[w].id] = op[w].record]

DumpQueue(w) ==
    /\ At(w, "dumpQueue")
    /\ queue' = QueueWritten(w)
    /\ torn' \in TornAfter("queue")
    /\ Becomes(w, IF op[w].after = "idle" THEN IdleProcess
                  ELSE [op[w] EXCEPT !.pc = op[w].after, !.queueCopy = NoQueue])
    /\ UNCHANGED <<frames, ledger, index, commands, crashes, raised>>

\* load_event_index() raises on a file it cannot parse.
ReadIndex(w) ==
    /\ At(w, "readIndex")
    /\ IF "index" \notin torn
       THEN /\ Becomes(w, [op[w] EXCEPT !.pc = "openIndex", !.indexCopy = index])
            /\ UNCHANGED ledger
       ELSE Throw(w)
    /\ UNCHANGED <<frames, index, queue, torn, commands, crashes, raised>>

OpenIndex(w) ==
    /\ At(w, "openIndex")
    /\ torn' = torn \cup {"index"}
    /\ Becomes(w, [op[w] EXCEPT !.pc = "dumpIndex"])
    /\ UNCHANGED <<frames, ledger, index, queue, commands, crashes, raised>>

IndexWritten_Faulty(w) ==
    [op[w].indexCopy EXCEPT ![op[w].id] =
        [seen |-> TRUE,
         frame |-> IF op[w].record.status = "FRAME_CREATED" THEN op[w].frame ELSE 0]]

IndexWritten(w) ==
    [op[w].indexCopy EXCEPT ![op[w].id] = [seen |-> TRUE, frame |-> op[w].frame]]

DumpIndex(w) ==
    /\ At(w, "dumpIndex")
    /\ index' = IndexWritten(w)
    /\ torn' \in TornAfter("index")
    /\ Becomes(w, [op[w] EXCEPT !.pc = IF op[w].after = "requeue" THEN "requeue" ELSE "readQueue",
                                !.indexCopy = NoIndex])
    /\ UNCHANGED <<frames, ledger, queue, commands, crashes, raised>>

-----------------------------------------------------------------------------
(* intake_event() *)

\* The queue record of a new delivery replaces the one an earlier delivery left.
Begin(id, run, held) ==
    ThenQueue([IdleProcess EXCEPT !.id = id, !.run = run, !.held = held],
              Record("RECEIVED", 0), "check")

Deliver(w, e) ==
    /\ At(w, "idle")
    /\ commands < MaxCommands
    /\ commands' = commands + 1
    /\ \E run \in BOOLEAN : Becomes(w, Begin(<<e, 0>>, run, Absent))
    /\ UNCHANGED <<frames, ledger, index, queue, torn, crashes, raised>>

\* The event is not valid, or violates its source's contract: it is not indexed.
Invalid(w) ==
    /\ At(w, "check")
    /\ Becomes(w, ThenQueue(op[w], FailedRecord, "return"))
    /\ Logged(w)
    /\ UNCHANGED <<frames, index, queue, torn, commands, crashes, raised>>

IsDuplicate_Faulty(id) == queue[id].status \notin {"ABSENT", "RECEIVED"}

\* is_duplicate_event()
IsDuplicate(id) == index[id].seen

Check(w) ==
    /\ At(w, "check")
    /\ IF "index" \in torn THEN Throw(w)
       ELSE /\ Becomes(w, [op[w] EXCEPT !.pc = IF IsDuplicate(op[w].id) THEN "duplicate"
                                                                          ELSE "route"])
            /\ UNCHANGED ledger
    /\ UNCHANGED <<frames, index, queue, torn, commands, crashes, raised>>

\* The entry is read a second time, for its frame.
Duplicate(w) ==
    /\ At(w, "duplicate")
    /\ IF "index" \in torn
       THEN Throw(w)
       ELSE /\ Becomes(w, ThenBoth([op[w] EXCEPT !.ok = TRUE], index[op[w].id].frame,
                                   Record("DUPLICATE_EVENT", index[op[w].id].frame), "requeue"))
            /\ Logged(w)
    /\ UNCHANGED <<frames, index, queue, torn, commands, crashes, raised>>

AfterIntake_Faulty(p) == IF p.run /\ p.frame # 0 THEN "run" ELSE "return"

\* What intake_and_run_event() goes on with; intake_event() alone just returns.
AfterIntake(p) ==
    IF p.run /\ p.frame # 0 /\ p.record.status = "FRAME_CREATED" THEN "run" ELSE "return"

\* load_queue_record(): the record, or Absent.
Loaded(id) == IF "queue" \in torn THEN Absent ELSE queue[id]

\* The queue record that is there keeps its link; it is the one this delivery wrote
\* when it began.
Requeue(w) ==
    /\ At(w, "requeue")
    /\ LET existing == Loaded(op[w].id) IN
         Becomes(w, ThenQueue(op[w], IF existing = Absent THEN op[w].record
                                     ELSE [existing EXCEPT !.status = "DUPLICATE_EVENT"],
                              AfterIntake(op[w])))
    /\ UNCHANGED <<frames, ledger, index, queue, torn, commands, crashes, raised>>

Route(w) ==
    /\ At(w, "route")
    /\ \/ /\ Becomes(w, ThenQueue(op[w], Record("ROUTE_RESOLVED", 0), "map"))
          /\ UNCHANGED ledger
       \/ /\ Becomes(w, ThenBoth(op[w], 0, Record("ROUTE_NOT_FOUND", 0), "return"))
          /\ Logged(w)
    /\ UNCHANGED <<frames, index, queue, torn, commands, crashes, raised>>

\* The inputs cannot be mapped, the manifest is missing, or loading it or creating
\* the frame raises.
Unmappable(w) ==
    /\ At(w, "map")
    /\ Becomes(w, ThenBoth(op[w], 0, FailedRecord, "return"))
    /\ Logged(w)
    /\ UNCHANGED <<frames, index, queue, torn, commands, crashes, raised>>

\* The frame is created and saved.
CreateFrame(w) ==
    /\ At(w, "map")
    /\ frames' = Append(frames, [event |-> op[w].id, state |-> "CREATED"])
    /\ LET frame == Len(frames) + 1
           p == ThenBoth([op[w] EXCEPT !.ok = TRUE], frame, Record("FRAME_CREATED", frame),
                         "return")
       IN Becomes(w, [p EXCEPT !.after = AfterIntake(p)])
    /\ Logged(w)
    /\ UNCHANGED <<index, queue, torn, commands, crashes, raised>>

-----------------------------------------------------------------------------
(* intake_and_run_event(), for a frame this delivery has created *)

\* prepare_frame(), run_until_blocked() and save_snapshot(); a run that raises is
\* saved as it is, and nothing tells the queue.
Run(w) ==
    /\ At(w, "run")
    /\ \E st \in FrameStates \ {"CREATED"} :
         /\ frames' = [frames EXCEPT ![op[w].frame].state = st]
         /\ Becomes(w, [op[w] EXCEPT !.pc = IF st = "RAISED" THEN "return" ELSE "settle",
                                     !.ok = (st = "COMPLETED")])
    /\ UNCHANGED <<ledger, index, queue, torn, commands, crashes, raised>>

Settle(w) ==
    /\ At(w, "settle")
    /\ LET existing == Loaded(op[w].id) IN
         Becomes(w, IF existing = Absent THEN [op[w] EXCEPT !.pc = "return"]
                    ELSE ThenQueue(op[w], [existing EXCEPT
                             !.status = IF op[w].ok THEN "COMPLETED" ELSE "FAILED_EXECUTION",
                             !.frame = op[w].frame], "return"))
    /\ UNCHANGED <<frames, ledger, index, queue, torn, commands, crashes, raised>>

-----------------------------------------------------------------------------
(* replay_event_dry_run() *)

ReplayId_Faulty(id, record) == id

ReplayId(id, record) == <<id[1], record.attempts + 1>>

\* Without a queue record, one is built from the event's line in events.jsonl.
Replay(w, e) ==
    /\ At(w, "idle")
    /\ commands < MaxCommands
    /\ commands' = commands + 1
    /\ LET record == IF Loaded(<<e, 0>>) # Absent THEN Loaded(<<e, 0>>)
                                                  ELSE Record("RECEIVED", 0) IN
         /\ Loaded(<<e, 0>>) # Absent \/ <<e, 0>> \in ledger
         /\ record.attempts < MaxReplays
         /\ Becomes(w, Begin(ReplayId(<<e, 0>>, record), TRUE, record))
    /\ UNCHANGED <<frames, ledger, index, queue, torn, crashes, raised>>

Replayed_Faulty(p) ==
    [p.held EXCEPT !.status = IF p.ok THEN "REPLAYED_DRY_RUN" ELSE "REPLAY_FAILED",
                   !.attempts = @ + 1,
                   !.frame = p.frame]

\* The queue record of the event after its replay; the rest is as it was loaded
\* before the replay.
Replayed(p) ==
    [p.held EXCEPT !.status = IF p.ok THEN "REPLAYED_DRY_RUN" ELSE "REPLAY_FAILED",
                   !.attempts = @ + 1,
                   !.replay = p.frame]

\* A replay ends with an update of the queue record of the event it replays.
AfterReturn(p) ==
    IF p.held = Absent THEN IdleProcess
    ELSE ThenQueue([IdleProcess EXCEPT !.id = <<p.id[1], 0>>], Replayed(p), "idle")

Return(w) ==
    /\ At(w, "return")
    /\ Becomes(w, AfterReturn(op[w]))
    /\ UNCHANGED <<frames, ledger, index, queue, torn, commands, crashes, raised>>

-----------------------------------------------------------------------------
\* What may raise beside a torn index: reading and writing either file, before, while
\* or after it is emptied; the routes file; a manifest catalog that does not load; a
\* contract, an event or a frame that cannot be read, logged or saved.  The files and
\* the frame stay as they are.
Raises(w) ==
    /\ raised < MaxRaises
    /\ raised' = raised + 1
    /\ op[w].pc \in {"readQueue", "openQueue", "dumpQueue", "readIndex", "openIndex",
                     "dumpIndex", "check", "duplicate", "route", "map", "run"}
    /\ Throw(w)
    /\ UNCHANGED <<frames, index, queue, torn, commands, crashes>>

Crash(w) ==
    /\ ~At(w, "idle")
    /\ crashes < MaxCrashes
    /\ crashes' = crashes + 1
    /\ Becomes(w, IdleProcess)
    /\ UNCHANGED <<frames, ledger, index, queue, torn, commands, raised>>

Command(w) == \E e \in Event : Deliver(w, e) \/ Replay(w, e)

Progress(w) == \/ ReadQueue(w) \/ OpenQueue(w) \/ DumpQueue(w)
               \/ ReadIndex(w) \/ OpenIndex(w) \/ DumpIndex(w)
               \/ Invalid(w) \/ Check(w) \/ Duplicate(w) \/ Requeue(w)
               \/ Route(w) \/ Unmappable(w) \/ CreateFrame(w)
               \/ Run(w) \/ Settle(w) \/ Return(w)

Next == \E w \in Worker : Command(w) \/ Progress(w) \/ Raises(w) \/ Crash(w)

Spec == Init /\ [][Next]_vars
-----------------------------------------------------------------------------
(* Properties *)

TypeOK ==
    /\ frames \in Seq([event : Id, state : FrameStates])
    /\ ledger \subseteq Id
    /\ index \in [Id -> IndexEntry]
    /\ queue \in [Id -> QueueRecord]
    /\ torn \subseteq {"index", "queue"}
    /\ op \in [Worker -> Process]
    /\ commands \in Nat
    /\ crashes \in Nat
    /\ raised \in Nat

\* f is None, or a frame of the store that was created for the event id.
Links(store, f, id) == f # 0 => f \in DOMAIN store /\ store[f].event = id

\* f is None, or a frame of the store that a replay of the event id has created.
LinksReplay(store, f, id) ==
    f # 0 => /\ f \in DOMAIN store
             /\ store[f].event[1] = id[1] /\ store[f].event[2] > 0

LinkedEntry(store, entry, id) == Links(store, entry.frame, id)

LinkedRecord(store, record, id) ==
    Links(store, record.frame, id) /\ LinksReplay(store, record.replay, id)

\* Whatever overlaps, crashes and is lost, the index and the queue never name a
\* frame that does not exist or that another event started.
LinksExist == \A id \in Id : LinkedEntry(frames, index[id], id) /\ LinkedRecord(frames, queue[id], id)

\* A frame that has been run is never run again, however often its event is
\* delivered or replayed, and by however many processes at once.
RunOnce == [][\A f \in DOMAIN frames :
                 frames[f].state # "CREATED" => frames'[f] = frames[f]]_frames

AllIdle == \A w \in Worker : At(w, "idle")

Orphans == {f \in DOMAIN frames : index[frames[f].event].frame # f}

Faults == crashes + raised

FramesOf(id) == {f \in DOMAIN frames : frames[f].event = id}

\* A frame of the store is the one the index has for its event, but for one lost
\* frame for every crash or exception; only those leave an index that cannot be read,
\* and then redelivery creates no further frame.  For one worker.
OrphansByFaultsOnly ==
    AllIdle => /\ IF "index" \in torn THEN Faults > 0 ELSE Cardinality(Orphans) <= Faults
               /\ \A id \in Id : Cardinality(FramesOf(id)) <= 1 + Faults

\* p is writing the FAILED entry that follows an exception.
Failing(p) ==
    p.pc \in {"readIndex", "openIndex", "dumpIndex"} /\ p.record.status = "FAILED_EXECUTION"

\* From one readable index to the next, no redelivery or replay takes the link of an
\* event to its frame away or moves it; only the entry written after an exception
\* does.  For one worker.
LinkStays ==
    [][\A id \in Id :
         index[id].frame # 0 /\ index'[id].frame # index[id].frame =>
             /\ raised > 0 /\ index'[id].frame = 0
             /\ \E w \in Worker : Failing(op[w]) /\ op[w].id = id]_index

\* What queue record r says of the event, of its frame and of what became of it is so.
Agrees(r, id) ==
    /\ r.frame # 0 => r.frame = index[id].frame
    /\ r.status \in {"FRAME_CREATED", "COMPLETED"} => r.frame # 0
    /\ r.frame # 0 /\ r.status \in {"COMPLETED", "FAILED_EXECUTION"} =>
         /\ r.frame \in DOMAIN frames
         /\ frames[r.frame].state = IF r.status = "COMPLETED" THEN "COMPLETED" ELSE "FAILED"

\* The frame a queue record names is the one the index names; an event reported as
\* started or completed has one; and a run reported as completed or failed ended so.
\* For one worker.
QueueAgrees == \A id \in Id : Agrees(queue[id], id)

Settled(r) == r.status \notin {"RECEIVED", "ROUTE_RESOLVED"}

Unsettled == {id \in Id : ~Settled(queue[id])}

\* While the index can be read, the queue has an event in an intermediate status, when
\* the command that took it in has come back, only for a crash or an exception.  For
\* one worker.
QueueSettled == AllIdle /\ "index" \notin torn => Cardinality(Unsettled) <= Faults

\* A replay of e leaves the index entry of e and the frames e itself started as
\* they are.  For one worker.
ReplayLeavesOriginal ==
    [][\A w \in Worker : Replaying(w) =>
          LET id == <<op[w].id[1], 0>> IN
            /\ index'[id] = index[id]
            /\ \A f \in DOMAIN frames : frames[f].event = id => frames'[f] = frames[f]]_vars

-----------------------------------------------------------------------------
(* The inductive invariant behind LinksExist and RunOnce *)

\* What a process holds, in its result, in the record it is about to write and in
\* its copies of the files, links as the files do; a replay can be counted; and what
\* is put back into the queue is a duplicate.
Holds(store, p) ==
    /\ Links(store, p.frame, p.id)
    /\ LinkedRecord(store, p.record, p.id)
    /\ \A id \in Id : /\ LinkedEntry(store, p.indexCopy[id], id)
                      /\ LinkedRecord(store, p.queueCopy[id], id)
    /\ LinkedRecord(store, p.held, <<p.id[1], 0>>)
    /\ p.held # Absent => p.id[2] > 0 /\ p.held.attempts < MaxReplays
    /\ p.pc = "requeue" => p.after = "requeue"
    /\ p.after = "requeue" => p.record.status = "DUPLICATE_EVENT"

\* The process has created a frame it is going to run.
WillRun(p) ==
    \/ p.pc = "run"
    \/ p.after = "run" /\ p.pc \in {"readIndex", "openIndex", "dumpIndex",
                                    "readQueue", "openQueue", "dumpQueue"}

\* Nobody has run a frame that a process is going to run, and nobody else will.
OwnsFrame(w) ==
    WillRun(op[w]) =>
        /\ op[w].frame \in DOMAIN frames
        /\ frames[op[w].frame].state = "CREATED"
        /\ \A v \in Worker \ {w} : WillRun(op[v]) => op[v].frame # op[w].frame

IndInv == /\ TypeOK
          /\ LinksExist
          /\ \A w \in Worker : Holds(frames, op[w]) /\ OwnsFrame(w)

-----------------------------------------------------------------------------
(* The inductive invariant behind the properties of one worker *)

QueueWrite(p) == p.pc \in {"readQueue", "openQueue", "dumpQueue"}

IndexWrite(p) == p.pc \in {"readIndex", "openIndex", "dumpIndex"}

\* The process has passed the duplicate check, and the index does not tell so yet.
Unindexed(p) == \/ p.pc \in {"route", "map"}
                \/ QueueWrite(p) /\ p.after = "map"
                \/ IndexWrite(p) /\ p.after # "requeue" /\ ~Failing(p)

\* The frame the process has created and not yet linked.
Pending(p) == IF IndexWrite(p) /\ p.after # "requeue" THEN {p.frame} \ {0} ELSE {}

\* The frame whose link the process is about to take away.
Dropped(p) == IF Failing(p) THEN {index[p.id].frame} \ {0} ELSE {}

\* The frames the index does not know, when the process is done with it.
Lost(p) == (Orphans \ Pending(p)) \cup Dropped(p)

\* The queue record of the process's event is one of this delivery.
Fresh(p) == \/ p.pc \in {"check", "route", "map"}
            \/ QueueWrite(p) /\ (p.after = "map" \/ p.record.status = "FRAME_CREATED")
            \/ IndexWrite(p) /\ p.after # "requeue"

\* The event whose record the process has still to settle.
Due(p) == IF p.pc \in {"idle", "run", "settle", "return"} \/ (QueueWrite(p) /\ p.after = "idle")
          THEN {} ELSE {p.id}

\* What the process does with the index: its copy is the file, which can be parsed
\* unless it is being written or was when the process crashed or raised.
SerialIndex(p) ==
    /\ p.pc \in {"openIndex", "dumpIndex"} => p.indexCopy = index
    /\ p.pc = "openIndex" => "index" \notin torn
    /\ p.pc = "dumpIndex" => "index" \in torn
    /\ "index" \in torn /\ (Faults = 0 \/ Unindexed(p)) => p.pc = "dumpIndex"
    /\ Unindexed(p) => ~index[p.id].seen
    /\ IndexWrite(p) => p.after \in {"requeue", "run", "return"}
    /\ Failing(p) => p.after = "return" /\ p.frame = 0
                     /\ (index[p.id].seen => raised > 0)
    /\ InTry(p) => p.after \in {"run", "return"}

\* The frames the process has in hand are those of the index, or become so.
SerialLinks(p) ==
    /\ \/ IndexWrite(p) /\ p.after = "requeue"
       \/ p.pc \in {"requeue", "run", "settle"}
       \/ QueueWrite(p) /\ p.after = "run"
       => p.frame = index[p.id].frame
    /\ IndexWrite(p) => p.record.frame = p.frame
    /\ p.pc = "requeue" => Agrees(p.record, p.id)
    /\ IndexWrite(p) => p.record.status \in {"FRAME_CREATED", "DUPLICATE_EVENT",
                                              "ROUTE_NOT_FOUND", "FAILED_EXECUTION"}
    /\ IndexWrite(p) /\ p.record.status = "FRAME_CREATED" => p.frame # 0
    /\ QueueWrite(p) => Agrees(p.record, p.id) /\ p.after # "requeue"
    /\ QueueWrite(p) /\ p.after \in {"check", "map"} => p.record.frame = 0
    /\ Fresh(p) => queue[p.id].frame = 0
    /\ p.pc = "settle" =>
         /\ p.frame \in DOMAIN frames
         /\ frames[p.frame].state = IF p.ok THEN "COMPLETED" ELSE "FAILED"
    /\ \A id \in Id : p.queueCopy[id] \in {queue[id], Absent}
    /\ Agrees(p.held, <<p.id[1], 0>>)

\* What ends the process's own intake settles its event.
SerialStatus(p) ==
    \/ IndexWrite(p)
    \/ p.pc = "requeue"
    \/ QueueWrite(p) /\ p.after \in {"idle", "run", "return"}
    => Settled(p.record)

\* The orphans and the unsettled events, but for those in the hands of the process,
\* are paid for.
SerialCounts(p) ==
    /\ Cardinality(Lost(p)) <= Faults
    /\ "index" \notin torn \/ p.pc = "dumpIndex" =>
         IsFiniteSet(Unsettled \ Due(p)) /\ Cardinality(Unsettled \ Due(p)) <= Faults

\* What the only process there is satisfies.
Serial(p) == SerialIndex(p) /\ SerialLinks(p) /\ SerialStatus(p) /\ SerialCounts(p)

SerialInv == /\ \A w \in Worker : Serial(op[w])
             /\ \A id \in Id : index[id].frame # 0 => index[id].seen
             /\ QueueAgrees

=============================================================================
