---------------------------- MODULE StoreCleanup ----------------------------
(***************************************************************************)
(* The files below runtime_data/ and the processes that touch them without *)
(* a lock: runs that save their frames (persistence.py), reports           *)
(* (run_report.py), the retention cleanup (artifact_cleanup.py,             *)
(* retention_policy.py, cleanup_commands.py) and the backup                 *)
(* (runtime_store.py).                                                      *)
(*                                                                         *)
(* The cleanup first looks for candidates, deciding per frame whether its   *)
(* evidence is protected, and deletes afterwards, by path, whatever is      *)
(* unprotected then.  The decision is taken from summary.json, the last     *)
(* file a save writes.                                                      *)
(*                                                                         *)
(* X_Faulty is a plausible bug in X, as in Orchestrator.                     *)
(***************************************************************************)
EXTENDS Integers, Sequences, FiniteSets, TaskFrame

CONSTANTS
    Frame,
    Saved,          \* the states, with and without actions, that frames are saved in
    Policies,       \* the retention policies a cleanup is started with
    MaxSaves,       \* bound on the saves of one frame
    MaxReports,     \* bound on the reports written
    MaxMaintenance, \* bound on the cleanups and backups together
    MaxCrashes      \* bound on the crashes

\* What decides in summary.json and taskframe.json.  version, a history value, numbers
\* the saves of a frame; 0: there is no such file.
Snapshot == [version : Nat, state : TASKFRAME_STATES, pending : BOOLEAN, executed : BOOLEAN]

NoFile == [version |-> 0, state |-> "CREATED", pending |-> FALSE, executed |-> FALSE]

\* The other files of a frame: its approval pack, its report, and the temporary files of
\* write_json_atomic(); artifact_index.json is one file for all frames.
TempFiles == {"bundle.tmp", "summary.tmp", "taskframe.tmp"}

Paths == (Frame \X ({"pack", "run_report"} \cup TempFiles)) \cup {<<"runs", "artifact_index">>}

IndexPath == <<"runs", "artifact_index">>

\* The age of a file, as far as a policy can tell: absent, younger or older than its limits.
Absent == -1
Fresh == 0
Old == 1
Ages == {Absent, Fresh, Old}

Modes == { "derived_artifacts_only", "reports_only", "indexes_only",
           "approval_packs_only", "temp_only", "run_dirs", "all" }

Kinds == <<"report", "artifact_index", "temp_file", "empty_dir", "approval_pack">>

\* The fields of a policy that validate_retention_policy() or the planner looks at.
\* An age limit is Fresh when files of any age are over it.
Policy == [ mode : Modes, dry_run : BOOLEAN, confirm_cleanup : BOOLEAN,
            delete_reports : BOOLEAN, delete_artifact_index : BOOLEAN,
            delete_temp_files : BOOLEAN, delete_empty_dirs : BOOLEAN,
            delete_expired_approval_packs : BOOLEAN, delete_run_dirs : BOOLEAN,
            max_report_age_days : {Fresh, Old}, max_temp_age_days : {Fresh, Old},
            protect_states : SUBSET TASKFRAME_STATES,
            protect_live_execution : BOOLEAN, protect_pending_actions : BOOLEAN,
            protect_ready_approval_packs : BOOLEAN ]

ASSUME StoreCleanupAssumption ==
    /\ Saved \subseteq [state : TASKFRAME_STATES, pending : BOOLEAN, executed : BOOLEAN]
    /\ Policies \subseteq Policy /\ Policies # {}
    /\ MaxSaves \in Nat /\ MaxReports \in Nat /\ MaxMaintenance \in Nat /\ MaxCrashes \in Nat
    /\ "runs" \notin Frame

PackStatuses == {"READY_FOR_CONFIRMATION", "USED", "unknown", "malformed"}

VARIABLES
    taskframe,  \* taskframe.json of every frame
    summary,    \* summary.json of every frame
    age,        \* the other files
    reports,    \* the frames that have a directory reports/
    pack,       \* the status in the approval pack of every frame; nothing rewrites a pack
    save,       \* the process that saves the frame
    writer,     \* the process that writes the frame's report
    clean,      \* the cleanup
    backup,     \* the backup
    count,      \* the saves that failed, and what is bounded
    overtaken   \* history: the frames saved, or found half saved, during the cleanup

vars == <<taskframe, summary, age, reports, pack, save, writer, clean, backup, count, overtaken>>

Exists(p) == age[p] # Absent

-----------------------------------------------------------------------------
\* retention_policy.py

\* validate_retention_policy() and what execute_cleanup() asks for: a cleanup that
\* deletes has dry_run off and is confirmed, and run directories are never deleted.
Accepted(p) ==
    /\ p.mode \notin {"run_dirs", "all"}
    /\ ~p.dry_run /\ p.confirm_cleanup
    /\ ~p.delete_run_dirs

\* cleanup_mode_allows()
ModeAllows(p, kind) ==
    \/ p.mode = "derived_artifacts_only"
    \/ p.mode = "reports_only" /\ kind = "report"
    \/ p.mode = "indexes_only" /\ kind = "artifact_index"
    \/ p.mode = "approval_packs_only" /\ kind = "approval_pack"
    \/ p.mode = "temp_only" /\ kind = "temp_file"

\* The deletions a policy asks for.
Deletes(p, kind) ==
    /\ ModeAllows(p, kind)
    /\ CASE kind = "report"         -> p.delete_reports
         [] kind = "artifact_index" -> p.delete_artifact_index
         [] kind = "temp_file"      -> p.delete_temp_files
         [] kind = "empty_dir"      -> p.delete_empty_dirs
         [] kind = "approval_pack"  -> p.delete_expired_approval_packs
         [] OTHER                   -> FALSE

\* The rules of frame_is_protected() on one record of the frame.
Protects(p, s) ==
    \/ s.state \in p.protect_states
    \/ p.protect_pending_actions /\ s.pending
    \/ p.protect_live_execution /\ s.executed

\* There is a pack somebody has still to confirm, or one that cannot be read.
PackWaits(f) ==
    /\ Exists(<<f, "pack">>)
    /\ pack[f] \in {"READY_FOR_CONFIRMATION", "malformed"}

\* The staged actions are left to protect_states.
FrameIsProtected_Faulty(p, f) ==
    \/ taskframe[f] = NoFile /\ summary[f] = NoFile
    \/ summary[f].state \in p.protect_states
    \/ p.protect_live_execution /\ summary[f].executed
    \/ p.protect_ready_approval_packs /\ PackWaits(f)

\* frame_is_protected(): summary.json is asked first, taskframe.json only when there is no
\* summary; a frame with neither is protected.
FrameIsProtected(p, f) ==
    \/ taskframe[f] = NoFile /\ summary[f] = NoFile
    \/ Protects(p, IF summary[f] # NoFile THEN summary[f] ELSE taskframe[f])
    \/ p.protect_ready_approval_packs /\ PackWaits(f)
-----------------------------------------------------------------------------
IdleSave == [pc |-> "idle", next |-> NoFile]

\* left: the frames a pass has still to look at; todo: the unprotected candidates.
IdleClean == [pc |-> "idle", policy |-> CHOOSE p \in Policies : TRUE,
              left |-> {}, todo |-> {}, errors |-> FALSE]

\* left: the files listed and not yet copied; taskframe and summary: what is in the archive.
IdleBackup == [pc |-> "idle", left |-> {}, taskframe |-> [f \in Frame |-> NoFile],
               summary |-> [f \in Frame |-> NoFile]]

Init ==
    /\ taskframe = [f \in Frame |-> NoFile]
    /\ summary = [f \in Frame |-> NoFile]
    /\ \E packed \in SUBSET Frame :
          /\ pack \in [Frame -> PackStatuses]
          /\ \A f \in Frame \ packed : pack[f] = "unknown"
          /\ age = [p \in Paths |-> IF p[1] \in packed /\ p[2] = "pack" THEN Old ELSE Absent]
    /\ reports = {}
    /\ save = [f \in Frame |-> IdleSave]
    /\ writer = [f \in Frame |-> "idle"]
    /\ clean = IdleClean
    /\ backup = IdleBackup
    /\ count = [failed |-> 0, reports |-> 0, maintenance |-> 0, crashes |-> 0]
    /\ overtaken = {}
-----------------------------------------------------------------------------
\* save_taskframe(): taskframe.json, audit.json, outputs.json and summary.json one after the
\* other, each filled under its temporary name and moved.

\* What a frame can be saved as next: actions and executions are only ever added, and a
\* final state stays.
CanFollow(s, n) ==
    /\ s.pending => n.pending
    /\ s.executed => n.executed
    /\ n.executed => n.pending
    /\ n.state = "WAITING_FOR_EXECUTE" => n.pending
    /\ n.state = "CREATED" => s = NoFile /\ ~n.pending
    /\ s.state \in FinalStates => n.state = s.state

BeginSave(f) ==
    /\ save[f].pc = "idle"
    /\ taskframe[f].version < MaxSaves
    /\ \E n \in Saved :
          /\ CanFollow(taskframe[f], n)
          /\ save' = [save EXCEPT ![f] = [pc |-> "taskframe.tmp", next |->
                        [ version |-> taskframe[f].version + 1, state |-> n.state,
                          pending |-> n.pending, executed |-> n.executed ]]]
    /\ age' = [age EXCEPT ![<<f, "taskframe.tmp">>] = Fresh]
    /\ UNCHANGED <<taskframe, summary, reports, pack, writer, clean, backup, count, overtaken>>

\* os.replace() raises when the temporary file has gone, and the save ends there.
SaveFails(f) ==
    /\ save[f].pc \in {"taskframe.tmp", "summary.tmp"}
    /\ ~Exists(<<f, save[f].pc>>)
    /\ save' = [save EXCEPT ![f] = IdleSave]
    /\ count' = [count EXCEPT !.failed = 1]
    /\ UNCHANGED <<taskframe, summary, age, reports, pack, writer, clean, backup, overtaken>>

MoveTaskframe(f) ==
    /\ save[f].pc = "taskframe.tmp"
    /\ Exists(<<f, "taskframe.tmp">>)
    /\ taskframe' = [taskframe EXCEPT ![f] = save[f].next]
    /\ age' = [age EXCEPT ![<<f, "taskframe.tmp">>] = Absent]
    /\ save' = [save EXCEPT ![f].pc = "between"]
    /\ overtaken' = IF clean.pc = "idle" THEN overtaken ELSE overtaken \cup {f}
    /\ UNCHANGED <<summary, reports, pack, writer, clean, backup, count>>

FillSummary(f) ==
    /\ save[f].pc = "between"
    /\ age' = [age EXCEPT ![<<f, "summary.tmp">>] = Fresh]
    /\ save' = [save EXCEPT ![f].pc = "summary.tmp"]
    /\ UNCHANGED <<taskframe, summary, reports, pack, writer, clean, backup, count, overtaken>>

MoveSummary(f) ==
    /\ save[f].pc = "summary.tmp"
    /\ Exists(<<f, "summary.tmp">>)
    /\ summary' = [summary EXCEPT ![f] = save[f].next]
    /\ age' = [age EXCEPT ![<<f, "summary.tmp">>] = Absent]
    /\ save' = [save EXCEPT ![f] = IdleSave]
    /\ UNCHANGED <<taskframe, reports, pack, writer, clean, backup, count, overtaken>>

-----------------------------------------------------------------------------
\* generate_operator_run_report() and the index of the runs.

\* There is no report of a frame that cannot be read.
BeginReport(f) ==
    /\ writer[f] = "idle"
    /\ count.reports < MaxReports
    /\ taskframe[f] # NoFile
    /\ reports' = reports \cup {f}
    /\ writer' = [writer EXCEPT ![f] = "dir"]
    /\ count' = [count EXCEPT !.reports = @ + 1]
    /\ UNCHANGED <<taskframe, summary, age, pack, save, clean, backup, overtaken>>

FillBundle(f) ==
    /\ writer[f] = "dir"
    /\ f \in reports
    /\ age' = [age EXCEPT ![<<f, "bundle.tmp">>] = Fresh]
    /\ writer' = [writer EXCEPT ![f] = "bundle.tmp"]
    /\ UNCHANGED <<taskframe, summary, reports, pack, save, clean, backup, count, overtaken>>

\* The evidence bundle is moved to its name and the pages are written beside it.
WriteReport(f) ==
    /\ writer[f] = "bundle.tmp"
    /\ Exists(<<f, "bundle.tmp">>)
    /\ age' = [age EXCEPT ![<<f, "bundle.tmp">>] = Absent, ![<<f, "run_report">>] = Fresh]
    /\ writer' = [writer EXCEPT ![f] = "idle"]
    /\ UNCHANGED <<taskframe, summary, reports, pack, save, clean, backup, count, overtaken>>

\* The directory, or the temporary file, has been deleted under the writer.
ReportFails(f) ==
    /\ \/ writer[f] = "dir" /\ f \notin reports
       \/ writer[f] = "bundle.tmp" /\ ~Exists(<<f, "bundle.tmp">>)
    /\ writer' = [writer EXCEPT ![f] = "idle"]
    /\ UNCHANGED <<taskframe, summary, age, reports, pack, save, clean, backup, count, overtaken>>

\* rebuild_and_save_artifact_index()
RebuildIndex ==
    /\ age[IndexPath] # Fresh
    /\ age' = [age EXCEPT ![IndexPath] = Fresh]
    /\ UNCHANGED <<taskframe, summary, reports, pack, save, writer, clean, backup, count, overtaken>>

\* Files get older than the limits only while nobody is in the middle of writing one:
\* a limit is days, a write is not.
DaysPass ==
    /\ \A f \in Frame : save[f].pc = "idle" /\ writer[f] = "idle"
    /\ \E p \in Paths : age[p] = Fresh
    /\ age' = [p \in Paths |-> IF Exists(p) THEN Old ELSE Absent]
    /\ UNCHANGED <<taskframe, summary, reports, pack, save, writer, clean, backup, count, overtaken>>
-----------------------------------------------------------------------------
\* ArtifactCleaner.execute_cleanup(): three passes, then the deletions.

\* A candidate is what it is taken for and its path; <<f, "reports">> is the directory.
Candidate(kind, f, name) == [kind |-> kind, path |-> <<f, name>>]

\* Temporary files of any age.
OverLimit_Faulty(f, name, limit) == Exists(<<f, name>>)

OverLimit(f, name, limit) == Exists(<<f, name>>) /\ age[<<f, name>>] >= limit

\* The step command c:execute, or a caller, starts a cleanup.
StartCleanup(p) ==
    /\ clean.pc = "idle"
    /\ count.maintenance < MaxMaintenance
    /\ Accepted(p)
    /\ clean' = [pc |-> "reports", policy |-> p, left |-> Frame, todo |-> {}, errors |-> FALSE]
    /\ count' = [count EXCEPT !.maintenance = @ + 1]
    /\ overtaken' = {}
    /\ UNCHANGED <<taskframe, summary, age, reports, pack, save, writer, backup>>

\* The state of f is read with no regard to a save that is half done.
Overtaken(f) == overtaken \cup (IF summary[f] = taskframe[f] THEN {} ELSE {f})

\* discover_report_candidates(), one frame: every file in reports/, temporary ones included.
DiscoverReports(f) ==
    /\ clean.pc = "reports"
    /\ f \in clean.left
    /\ LET p == clean.policy
           found == { c \in {Candidate("report", f, n) : n \in {"run_report", "bundle.tmp"}} :
                         /\ Deletes(p, "report")
                         /\ f \in reports
                         /\ OverLimit(f, c.path[2], p.max_report_age_days)
                         /\ ~FrameIsProtected(p, f) }
       IN clean' = [clean EXCEPT !.left = @ \ {f}, !.todo = @ \cup found]
    /\ overtaken' = Overtaken(f)
    /\ UNCHANGED <<taskframe, summary, age, reports, pack, save, writer, backup, count>>

\* A directory nothing is in.
EmptyDir(f) ==
    /\ f \in reports
    /\ ~Exists(<<f, "run_report">>) /\ ~Exists(<<f, "bundle.tmp">>)

\* discover_index_candidates(), discover_temp_candidates(), discover_empty_dir_candidates():
\* no frame protects these.
DiscoverFiles ==
    /\ clean.pc = "reports"
    /\ clean.left = {}
    /\ LET p == clean.policy
           index == { c \in {[kind |-> "artifact_index", path |-> IndexPath]} :
                         Deletes(p, "artifact_index") /\ Exists(IndexPath) }
           temps == { Candidate("temp_file", q[1], q[2]) : q \in
                         { r \in Frame \X TempFiles :
                              /\ Deletes(p, "temp_file")
                              /\ OverLimit(r[1], r[2], p.max_temp_age_days) } }
           dirs == { Candidate("empty_dir", f, "reports") : f \in
                         { g \in Frame : Deletes(p, "empty_dir") /\ EmptyDir(g) } }
       IN clean' = [clean EXCEPT !.pc = "packs", !.left = Frame,
                                 !.todo = @ \cup index \cup temps \cup dirs]
    /\ UNCHANGED <<taskframe, summary, age, reports, pack, save, writer, backup, count, overtaken>>

\* discover_approval_pack_candidates(), one frame: a pack goes when it has been used up and
\* its frame is not protected.
DiscoverPack(f) ==
    /\ clean.pc = "packs"
    /\ f \in clean.left
    /\ LET p == clean.policy
           found == { c \in {Candidate("approval_pack", f, "pack")} :
                         /\ Deletes(p, "approval_pack")
                         /\ OverLimit(f, "pack", Old)
                         /\ pack[f] = "USED"
                         /\ ~FrameIsProtected(p, f) }
       IN clean' = [clean EXCEPT !.left = @ \ {f}, !.todo = @ \cup found]
    /\ overtaken' = Overtaken(f)
    /\ UNCHANGED <<taskframe, summary, age, reports, pack, save, writer, backup, count>>

StartDeleting ==
    /\ clean.pc = "packs"
    /\ clean.left = {}
    /\ clean' = [clean EXCEPT !.pc = "delete"]
    /\ UNCHANGED <<taskframe, summary, age, reports, pack, save, writer, backup, count, overtaken>>

KindRank(kind) == CHOOSE i \in DOMAIN Kinds : Kinds[i] = kind

\* The candidates are deleted in the order they were found in; the order of frames is open.
NextCandidates ==
    {c \in clean.todo : \A d \in clean.todo : KindRank(c.kind) <= KindRank(d.kind)}

\* _delete_candidate(): what has gone, and a directory that is not empty, is an error the
\* cleanup records before it carries on.
Delete(c) ==
    /\ clean.pc = "delete"
    /\ c \in NextCandidates
    /\ LET f == c.path[1]
           possible == IF c.kind = "empty_dir" THEN EmptyDir(f) ELSE Exists(c.path)
       IN /\ age' = IF possible /\ c.kind # "empty_dir" THEN [age EXCEPT ![c.path] = Absent] ELSE age
          /\ reports' = IF possible /\ c.kind = "empty_dir" THEN reports \ {f} ELSE reports
          /\ clean' = [clean EXCEPT !.todo = @ \ {c}, !.errors = @ \/ ~possible]
    /\ UNCHANGED <<taskframe, summary, pack, save, writer, backup, count, overtaken>>

EndCleanup ==
    /\ clean.pc = "delete"
    /\ clean.todo = {}
    /\ clean' = IdleClean
    /\ UNCHANGED <<taskframe, summary, age, reports, pack, save, writer, backup, count, overtaken>>
-----------------------------------------------------------------------------
\* backup_runtime_store(): the files below runs/ are listed, sorted, and copied one by one.

WalkNames == {"pack", "run_report", "summary", "taskframe"} \cup TempFiles

\* Files as the directory lists them.
WalkRank_Faulty(name) ==
    CASE name = "taskframe" -> 1
      [] name = "taskframe.tmp" -> 2
      [] name = "pack" -> 3
      [] name = "bundle.tmp" -> 4
      [] name = "run_report" -> 5
      [] name = "summary" -> 6
      [] name = "summary.tmp" -> 7

\* The place of a file in the sorted paths of its frame.
WalkRank(name) ==
    CASE name = "pack" -> 1
      [] name = "bundle.tmp" -> 2
      [] name = "run_report" -> 3
      [] name = "summary" -> 4
      [] name = "summary.tmp" -> 5
      [] name = "taskframe" -> 6
      [] name = "taskframe.tmp" -> 7

Listed(f, name) ==
    CASE name = "summary"   -> summary[f] # NoFile
      [] name = "taskframe" -> taskframe[f] # NoFile
      [] OTHER              -> Exists(<<f, name>>)

\* The next archive is another file.
StartBackup ==
    /\ backup.pc # "copy"
    /\ count.maintenance < MaxMaintenance
    /\ backup' = [IdleBackup EXCEPT !.pc = "copy",
                  !.left = {q \in Frame \X WalkNames : Listed(q[1], q[2])}]
    /\ count' = [count EXCEPT !.maintenance = @ + 1]
    /\ UNCHANGED <<taskframe, summary, age, reports, pack, save, writer, clean, overtaken>>

\* The next file of a frame; frames do not depend on each other and their order is open.
NextFile(f, name) ==
    /\ backup.pc = "copy"
    /\ <<f, name>> \in backup.left
    /\ \A q \in backup.left : q[1] = f => WalkRank(name) <= WalkRank(q[2])

CopyFile(f, name) ==
    /\ NextFile(f, name)
    /\ Listed(f, name)
    /\ backup' = [backup EXCEPT
                    !.left = @ \ {<<f, name>>},
                    !.taskframe[f] = IF name = "taskframe" THEN taskframe[f] ELSE @,
                    !.summary[f] = IF name = "summary" THEN summary[f] ELSE @]
    /\ UNCHANGED <<taskframe, summary, age, reports, pack, save, writer, clean, count, overtaken>>

\* _zip_path() goes on past a listed file that has gone since.
SkipFile(f, name) ==
    /\ NextFile(f, name)
    /\ ~Listed(f, name)
    /\ backup' = [backup EXCEPT !.left = @ \ {<<f, name>>}]
    /\ UNCHANGED <<taskframe, summary, age, reports, pack, save, writer, clean, count, overtaken>>

\* If it has gone between is_file() and write(), the backup ends with an exception, which
\* closes the archive: what has been copied stays in it.
BackupRaises(f, name) ==
    /\ NextFile(f, name)
    /\ ~Listed(f, name)
    /\ backup' = [backup EXCEPT !.pc = "partial"]
    /\ UNCHANGED <<taskframe, summary, age, reports, pack, save, writer, clean, count, overtaken>>

EndBackup ==
    /\ backup.pc = "copy"
    /\ backup.left = {}
    /\ backup' = [backup EXCEPT !.pc = "idle"]
    /\ UNCHANGED <<taskframe, summary, age, reports, pack, save, writer, clean, count, overtaken>>
-----------------------------------------------------------------------------
\* A process dies; its temporary files stay where they are.
Crash(f) ==
    /\ count.crashes < MaxCrashes
    /\ save[f].pc # "idle" \/ writer[f] # "idle"
    /\ save' = [save EXCEPT ![f] = IdleSave]
    /\ writer' = [writer EXCEPT ![f] = "idle"]
    /\ count' = [count EXCEPT !.crashes = @ + 1]
    /\ UNCHANGED <<taskframe, summary, age, reports, pack, clean, backup, overtaken>>

Next ==
    \/ \E f \in Frame :
          \/ BeginSave(f) \/ SaveFails(f) \/ MoveTaskframe(f) \/ FillSummary(f) \/ MoveSummary(f)
          \/ BeginReport(f) \/ FillBundle(f) \/ WriteReport(f) \/ ReportFails(f)
          \/ DiscoverReports(f) \/ DiscoverPack(f)
          \/ \E name \in WalkNames : CopyFile(f, name) \/ SkipFile(f, name) \/ BackupRaises(f, name)
          \/ Crash(f)
    \/ RebuildIndex \/ DaysPass
    \/ \E p \in Policies : StartCleanup(p)
    \/ DiscoverFiles \/ StartDeleting \/ EndCleanup
    \/ \E c \in clean.todo : Delete(c)
    \/ StartBackup \/ EndBackup

Spec == Init /\ [][Next]_vars
-----------------------------------------------------------------------------
Candidates == [kind : {Kinds[i] : i \in DOMAIN Kinds}, path : Paths \cup (Frame \X {"reports"})]

TypeOK ==
    /\ taskframe \in [Frame -> Snapshot]
    /\ summary \in [Frame -> Snapshot]
    /\ age \in [Paths -> Ages]
    /\ reports \subseteq Frame
    /\ pack \in [Frame -> PackStatuses]
    /\ save \in [Frame -> [pc : {"idle", "taskframe.tmp", "between", "summary.tmp"}, next : Snapshot]]
    /\ writer \in [Frame -> {"idle", "dir", "bundle.tmp"}]
    /\ clean \in [pc : {"idle", "reports", "packs", "delete"}, policy : Policies,
                  left : SUBSET Frame, todo : SUBSET Candidates, errors : BOOLEAN]
    /\ backup \in [pc : {"idle", "copy", "partial"},
                   left : SUBSET (Frame \X WalkNames),
                   taskframe : [Frame -> Snapshot], summary : [Frame -> Snapshot]]
    /\ count \in [failed : 0..1, reports : 0..MaxReports,
                  maintenance : 0..MaxMaintenance, crashes : 0..MaxCrashes]
    /\ overtaken \subseteq Frame

\* The evidence of f: its report or its approval pack is gone after this step.
LosesEvidence(f) ==
    \E name \in {"run_report", "pack"} :
        Exists(<<f, name>>) /\ age'[<<f, name>>] = Absent

\* What a policy protects in f, by the frame that is in force.
Matters(p, f) ==
    \/ Protects(p, taskframe[f])
    \/ p.protect_ready_approval_packs /\ PackWaits(f)

\* A cleanup decides long before it deletes, on a file that is written last.  It may
\* still never delete the evidence of a frame that its policy protects according to
\* taskframe.json and the packs, unless that frame was saved, or found half saved, while
\* the cleanup ran.
EvidenceLostByOverlapOnly ==
    [][\A f \in Frame : LosesEvidence(f) /\ Matters(clean.policy, f) => f \in overtaken]_vars

\* Temporary files are deleted by their path, and a path is used again.  When cleanups take
\* only temporary files of some age, a save loses its own to a cleanup only if a crash had
\* left an old one under the same name.
SavesFailByCrashOnly ==
    (\A p \in Policies : p.max_temp_age_days = Old) /\ count.failed > 0 => count.crashes > 0

\* A save writes taskframe.json first and summary.json last, a backup copies them in the
\* opposite order: in no archive is the summary ahead of the frame it summarises, whatever
\* the cleanup deletes meanwhile and the backup goes past.  What a backup that raised left
\* behind is an archive too, of which only the frames it had not reached are excepted.
ArchiveNotAhead ==
    \A f \in Frame :
        <<f, "taskframe">> \notin backup.left =>
            backup.summary[f].version <= backup.taskframe[f].version
-----------------------------------------------------------------------------
\* The inductive invariant.

EvidenceKinds == {"report", "approval_pack"}

\* There are candidates only during a cleanup, and this is what they can be.
CandidateShape ==
    /\ clean.pc = "idle" => clean.todo = {}
    /\ \A c \in clean.todo :
            /\ c.kind = "temp_file" => c.path[2] \in TempFiles
            /\ c.kind = "artifact_index" => c.path = IndexPath
            /\ c.kind \in EvidenceKinds =>
                  c.path[1] \in Frame /\ c.path[2] \in {"run_report", "bundle.tmp", "pack"}
            /\ c.kind = "empty_dir" => c.path[2] = "reports"

\* Evidence that is about to be deleted did not matter when its frame was last saved.
CandidatesDoNotMatter ==
    \A c \in clean.todo :
        c.kind \in EvidenceKinds /\ c.path[1] \notin overtaken =>
            ~Matters(clean.policy, c.path[1])

SaveTemps == {"taskframe.tmp", "summary.tmp"}

\* Without crashes a temporary file exists while its save is in progress, and only then;
\* it is young, and so no cleanup has it on its list.
TempsInUse ==
    (\A p \in Policies : p.max_temp_age_days = Old) /\ count.crashes = 0 =>
        /\ \A f \in Frame : \A t \in SaveTemps :
              age[<<f, t>>] = IF save[f].pc = t THEN Fresh ELSE Absent
        /\ \A c \in clean.todo : c.path[2] \notin SaveTemps

\* The summary is never ahead of the frame and never alone, and a save between the two files
\* is about to make them equal.
SummaryBehind ==
    \A f \in Frame :
        /\ summary[f].version <= taskframe[f].version
        /\ IF taskframe[f] = NoFile THEN summary[f] = NoFile ELSE taskframe[f].version > 0
        /\ save[f].pc \in {"between", "summary.tmp"} =>
              save[f].next = taskframe[f] /\ taskframe[f] # NoFile
        /\ save[f].pc = "taskframe.tmp" => save[f].next.version > taskframe[f].version

\* The archive is behind the store, a summary is copied only before its frame, and the
\* frame is there when it is copied.
ArchiveBehind ==
    \A f \in Frame :
        /\ backup.summary[f].version <= taskframe[f].version
        /\ <<f, "summary">> \in backup.left => <<f, "taskframe">> \in backup.left
        /\ <<f, "taskframe">> \in backup.left => taskframe[f].version > 0

IndInv ==
    /\ TypeOK
    /\ CandidateShape
    /\ CandidatesDoNotMatter
    /\ TempsInUse
    /\ SavesFailByCrashOnly
    /\ SummaryBehind
    /\ ArchiveBehind
    /\ ArchiveNotAhead
=============================================================================
