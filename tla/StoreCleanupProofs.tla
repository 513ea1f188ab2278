------------------------- MODULE StoreCleanupProofs -------------------------
(***************************************************************************)
(* Proofs about StoreCleanup, for every number of frames, saves, cleanups,  *)
(* backups and crashes, and every set of retention policies: what a cleanup *)
(* may delete, when a save fails, and how an archive may disagree.          *)
(***************************************************************************)
EXTENDS StoreCleanup, TLAPS

(***************************************************************************)
(* Facts about the data.                                                    *)
(***************************************************************************)

LEMMA NoFileType == NoFile \in Snapshot /\ "CREATED" \in TASKFRAME_STATES
BY DEF NoFile, Snapshot, TASKFRAME_STATES

LEMMA IdleSaveType ==
    IdleSave \in [pc : {"idle", "taskframe.tmp", "between", "summary.tmp"}, next : Snapshot]
BY NoFileType DEF IdleSave

LEMMA IdleCleanType ==
    /\ IdleClean.pc = "idle" /\ IdleClean.policy \in Policies
    /\ IdleClean.left = {} /\ IdleClean.todo = {} /\ IdleClean.errors = FALSE
    /\ IdleClean \in [pc : {"idle", "reports", "packs", "delete"}, policy : Policies,
                      left : SUBSET Frame, todo : SUBSET Candidates, errors : BOOLEAN]
BY StoreCleanupAssumption DEF IdleClean

LEMMA IdleBackupType ==
    /\ IdleBackup.pc = "idle" /\ IdleBackup.left = {}
    /\ IdleBackup.taskframe = [f \in Frame |-> NoFile]
    /\ IdleBackup.summary = [f \in Frame |-> NoFile]
    /\ IdleBackup \in [pc : {"idle", "copy", "partial"}, left : SUBSET (Frame \X WalkNames),
                       taskframe : [Frame -> Snapshot], summary : [Frame -> Snapshot]]
BY NoFileType DEF IdleBackup

\* The paths of the files, all different.
LEMMA PathFacts ==
    /\ \A f \in Frame : \A n \in TempFiles \cup {"run_report", "pack"} : <<f, n>> \in Paths
    /\ IndexPath \in Paths
    /\ \A f \in Frame : \A n : <<f, n>> # IndexPath
    /\ SaveTemps \subseteq TempFiles
BY StoreCleanupAssumption DEF Paths, IndexPath, TempFiles, SaveTemps

LEMMA SavedType ==
    \A s \in Saved : s.state \in TASKFRAME_STATES /\ s.pending \in BOOLEAN /\ s.executed \in BOOLEAN
BY StoreCleanupAssumption

LEMMA CountFacts ==
    ASSUME TypeOK
    PROVE  /\ count.failed \in 0..1 /\ count.reports \in Nat
           /\ count.maintenance \in Nat /\ count.crashes \in Nat
BY StoreCleanupAssumption DEF TypeOK

(***************************************************************************)
(* The steps, by the process that takes them.                               *)
(***************************************************************************)

SaveStep ==
    \E f \in Frame :
        BeginSave(f) \/ SaveFails(f) \/ MoveTaskframe(f) \/ FillSummary(f) \/ MoveSummary(f)

ReportStep ==
    \/ \E f \in Frame : BeginReport(f) \/ FillBundle(f) \/ WriteReport(f) \/ ReportFails(f)
    \/ RebuildIndex \/ DaysPass

CleanStep ==
    \/ \E f \in Frame : DiscoverReports(f) \/ DiscoverPack(f)
    \/ \E p \in Policies : StartCleanup(p)
    \/ DiscoverFiles \/ StartDeleting \/ EndCleanup
    \/ \E c \in clean.todo : Delete(c)

BackupStep ==
    \/ \E f \in Frame, name \in WalkNames : CopyFile(f, name) \/ SkipFile(f, name) \/ BackupRaises(f, name)
    \/ StartBackup \/ EndBackup

CrashStep == \E f \in Frame : Crash(f)

LEMMA NextSteps ==
    [Next]_vars =>
        SaveStep \/ ReportStep \/ CleanStep \/ BackupStep \/ CrashStep \/ UNCHANGED vars
BY DEF Next, SaveStep, ReportStep, CleanStep, BackupStep, CrashStep

(***************************************************************************)
(* Type correctness.                                                        *)
(***************************************************************************)

LEMMA InitTypeOK == Init => TypeOK
<1> SUFFICES ASSUME Init PROVE TypeOK
  OBVIOUS
<1>1. age \in [Paths -> Ages]
  BY DEF Init, Ages, Absent, Old, Fresh
<1>2. /\ taskframe \in [Frame -> Snapshot] /\ summary \in [Frame -> Snapshot]
      /\ save \in [Frame -> [pc : {"idle", "taskframe.tmp", "between", "summary.tmp"},
                             next : Snapshot]]
  BY NoFileType, IdleSaveType DEF Init
<1>3. /\ count \in [failed : 0..1, reports : 0..MaxReports,
                    maintenance : 0..MaxMaintenance, crashes : 0..MaxCrashes]
      /\ writer \in [Frame -> {"idle", "dir", "bundle.tmp"}]
      /\ reports \subseteq Frame /\ overtaken \subseteq Frame
      /\ pack \in [Frame -> PackStatuses]
  BY StoreCleanupAssumption DEF Init
<1> QED
  BY <1>1, <1>2, <1>3, IdleCleanType, IdleBackupType DEF Init, TypeOK

\* The steps of a save.
LEMMA SaveTypeOK ==
    ASSUME TypeOK, SaveStep
    PROVE  TypeOK'
<1> PICK f \in Frame :
        BeginSave(f) \/ SaveFails(f) \/ MoveTaskframe(f) \/ FillSummary(f) \/ MoveSummary(f)
  BY DEF SaveStep
<1>1. CASE BeginSave(f)
  <2>1. PICK n \in Saved :
            save' = [save EXCEPT ![f] = [pc |-> "taskframe.tmp", next |->
                        [ version |-> taskframe[f].version + 1, state |-> n.state,
                          pending |-> n.pending, executed |-> n.executed ]]]
    BY <1>1 DEF BeginSave
  <2>2. taskframe[f].version + 1 \in Nat
    BY DEF TypeOK, Snapshot
  <2>3. save' \in [Frame -> [pc : {"idle", "taskframe.tmp", "between", "summary.tmp"},
                             next : Snapshot]]
    BY <2>1, <2>2, SavedType DEF TypeOK, Snapshot
  <2>4. age' \in [Paths -> Ages]
    BY <1>1 DEF BeginSave, TypeOK, Ages, Fresh
  <2> QED
    BY <1>1, <2>3, <2>4 DEF BeginSave, TypeOK
<1>2. CASE SaveFails(f)
  <2>1. count' \in [failed : 0..1, reports : 0..MaxReports,
                    maintenance : 0..MaxMaintenance, crashes : 0..MaxCrashes]
    BY <1>2 DEF SaveFails, TypeOK
  <2> QED
    BY <1>2, <2>1, IdleSaveType DEF SaveFails, TypeOK
<1>3. CASE MoveTaskframe(f)
  <2>1. age' \in [Paths -> Ages]
    BY <1>3 DEF MoveTaskframe, TypeOK, Ages, Absent
  <2>2. taskframe' \in [Frame -> Snapshot]
    BY <1>3 DEF MoveTaskframe, TypeOK
  <2>3. save' \in [Frame -> [pc : {"idle", "taskframe.tmp", "between", "summary.tmp"},
                             next : Snapshot]]
    BY <1>3 DEF MoveTaskframe, TypeOK
  <2> QED
    BY <1>3, <2>1, <2>2, <2>3 DEF MoveTaskframe, TypeOK
<1>4. CASE FillSummary(f)
  <2>1. age' \in [Paths -> Ages]
    BY <1>4 DEF FillSummary, TypeOK, Ages, Fresh
  <2>2. save' \in [Frame -> [pc : {"idle", "taskframe.tmp", "between", "summary.tmp"},
                             next : Snapshot]]
    <3>1. save[f] \in [pc : {"idle", "taskframe.tmp", "between", "summary.tmp"}, next : Snapshot]
      BY DEF TypeOK
    <3>2. [save[f] EXCEPT !.pc = "summary.tmp"] \in
              [pc : {"idle", "taskframe.tmp", "between", "summary.tmp"}, next : Snapshot]
      BY <3>1
    <3>3. save' = [save EXCEPT ![f] = [save[f] EXCEPT !.pc = "summary.tmp"]]
      BY <1>4 DEF FillSummary
    <3> QED
      BY <3>2, <3>3 DEF TypeOK
  <2> QED
    BY <1>4, <2>1, <2>2 DEF FillSummary, TypeOK
<1>5. CASE MoveSummary(f)
  <2>1. age' \in [Paths -> Ages]
    BY <1>5 DEF MoveSummary, TypeOK, Ages, Absent
  <2>2. summary' \in [Frame -> Snapshot]
    BY <1>5 DEF MoveSummary, TypeOK
  <2> QED
    BY <1>5, <2>1, <2>2, IdleSaveType DEF MoveSummary, TypeOK
<1> QED
  BY <1>1, <1>2, <1>3, <1>4, <1>5

LEMMA ReportTypeOK ==
    ASSUME TypeOK, ReportStep
    PROVE  TypeOK'
<1>1. ASSUME NEW f \in Frame, BeginReport(f) PROVE TypeOK'
  <2>1. count.reports \in 0..MaxReports /\ count.reports < MaxReports
    BY <1>1 DEF BeginReport, TypeOK
  <2>2. count.reports + 1 \in 0..MaxReports
    BY <2>1, StoreCleanupAssumption
  <2>3. count' \in [failed : 0..1, reports : 0..MaxReports,
                    maintenance : 0..MaxMaintenance, crashes : 0..MaxCrashes]
    BY <1>1, <2>2 DEF BeginReport, TypeOK
  <2> QED
    BY <1>1, <2>3 DEF BeginReport, TypeOK
<1>2. CASE RebuildIndex \/ \E f \in Frame : FillBundle(f) \/ WriteReport(f)
  <2>1. age' \in [Paths -> Ages]
    BY <1>2 DEF FillBundle, WriteReport, RebuildIndex, TypeOK, Ages, Fresh, Absent
  <2> QED
    BY <1>2, <2>1 DEF FillBundle, WriteReport, RebuildIndex, TypeOK
<1>3. ASSUME NEW f \in Frame, ReportFails(f) PROVE TypeOK'
  BY <1>3 DEF ReportFails, TypeOK
<1>4. CASE DaysPass
  <2>1. age' \in [Paths -> Ages]
    BY <1>4 DEF DaysPass, TypeOK, Ages, Old, Absent
  <2> QED
    BY <1>4, <2>1 DEF DaysPass, TypeOK
<1> QED
  BY <1>1, <1>2, <1>3, <1>4 DEF ReportStep

LEMMA CrashTypeOK ==
    ASSUME TypeOK, CrashStep
    PROVE  TypeOK'
<1>1. PICK f \in Frame : Crash(f)
  BY DEF CrashStep
<1>2. count.crashes \in 0..MaxCrashes /\ count.crashes < MaxCrashes
  BY <1>1 DEF Crash, TypeOK
<1>3. count.crashes + 1 \in 0..MaxCrashes
  BY <1>2, StoreCleanupAssumption
<1>4. count' \in [failed : 0..1, reports : 0..MaxReports,
                  maintenance : 0..MaxMaintenance, crashes : 0..MaxCrashes]
  BY <1>1, <1>3 DEF Crash, TypeOK
<1>5. writer' \in [Frame -> {"idle", "dir", "bundle.tmp"}]
  BY <1>1 DEF Crash, TypeOK
<1> QED
  BY <1>1, <1>4, <1>5, IdleSaveType DEF Crash, TypeOK

\* A candidate on a path of the store.
LEMMA CandidateType ==
    ASSUME NEW kind \in {Kinds[i] : i \in DOMAIN Kinds}, NEW f \in Frame,
           NEW n \in TempFiles \cup {"run_report", "pack", "reports"}
    PROVE  /\ Candidate(kind, f, n) \in Candidates
           /\ Candidate(kind, f, n).kind = kind /\ Candidate(kind, f, n).path = <<f, n>>
<1>1. <<f, n>> \in Paths \cup (Frame \X {"reports"})
  BY DEF Paths, TempFiles
<1> QED
  BY <1>1 DEF Candidate, Candidates

LEMMA KindsFacts ==
    {Kinds[i] : i \in DOMAIN Kinds}
        = {"report", "artifact_index", "temp_file", "empty_dir", "approval_pack"}
<1>1. /\ DOMAIN Kinds = 1..5
      /\ Kinds[1] = "report" /\ Kinds[2] = "artifact_index" /\ Kinds[3] = "temp_file"
      /\ Kinds[4] = "empty_dir" /\ Kinds[5] = "approval_pack"
  BY DEF Kinds
<1>2. DOMAIN Kinds = {1, 2, 3, 4, 5}
  BY <1>1
<1> QED
  BY <1>1, <1>2

\* The record of a cleanup.
CleanType ==
    [pc : {"idle", "reports", "packs", "delete"}, policy : Policies,
     left : SUBSET Frame, todo : SUBSET Candidates, errors : BOOLEAN]

\* What the passes of a cleanup find.
LEMMA FoundType ==
    ASSUME TypeOK
    PROVE  /\ \A f \in Frame : DiscoverReports(f) => clean' \in CleanType
           /\ \A f \in Frame : DiscoverPack(f) => clean' \in CleanType
           /\ DiscoverFiles => clean' \in CleanType
<1>1. ASSUME NEW f \in Frame, DiscoverReports(f) PROVE clean' \in CleanType
  <2> DEFINE found == { c \in {Candidate("report", f, n) : n \in {"run_report", "bundle.tmp"}} :
                         /\ Deletes(clean.policy, "report")
                         /\ f \in reports
                         /\ OverLimit(f, c.path[2], clean.policy.max_report_age_days)
                         /\ ~FrameIsProtected(clean.policy, f) }
  <2>1. found \subseteq Candidates
    <3>1. \A n \in {"run_report", "bundle.tmp"} : Candidate("report", f, n) \in Candidates
      BY KindsFacts, CandidateType DEF TempFiles
    <3>2. {Candidate("report", f, n) : n \in {"run_report", "bundle.tmp"}} \subseteq Candidates
      BY <3>1
    <3> QED
      BY <3>2
  <2>2. clean' = [clean EXCEPT !.left = @ \ {f}, !.todo = @ \cup found]
    BY <1>1 DEF DiscoverReports
  <2> HIDE DEF found
  <2> QED
    BY <2>1, <2>2 DEF TypeOK, CleanType
<1>2. ASSUME NEW f \in Frame, DiscoverPack(f) PROVE clean' \in CleanType
  <2> DEFINE found == { c \in {Candidate("approval_pack", f, "pack")} :
                         /\ Deletes(clean.policy, "approval_pack")
                         /\ OverLimit(f, "pack", Old)
                         /\ pack[f] = "USED"
                         /\ ~FrameIsProtected(clean.policy, f) }
  <2>1. found \subseteq Candidates
    BY KindsFacts, CandidateType
  <2>2. clean' = [clean EXCEPT !.left = @ \ {f}, !.todo = @ \cup found]
    BY <1>2 DEF DiscoverPack
  <2> HIDE DEF found
  <2> QED
    BY <2>1, <2>2 DEF TypeOK, CleanType
<1>3. ASSUME DiscoverFiles PROVE clean' \in CleanType
  <2> DEFINE p == clean.policy
             index == { c \in {[kind |-> "artifact_index", path |-> IndexPath]} :
                         Deletes(p, "artifact_index") /\ Exists(IndexPath) }
             old == { r \in Frame \X TempFiles :
                              /\ Deletes(p, "temp_file")
                              /\ OverLimit(r[1], r[2], p.max_temp_age_days) }
             temps == { Candidate("temp_file", q[1], q[2]) : q \in old }
             dirs == { Candidate("empty_dir", f, "reports") : f \in
                         { g \in Frame : Deletes(p, "empty_dir") /\ EmptyDir(g) } }
  <2>1. index \subseteq Candidates
    BY KindsFacts, PathFacts DEF Candidates
  <2>2. temps \subseteq Candidates
    <3>1. ASSUME NEW q \in Frame \X TempFiles
          PROVE  Candidate("temp_file", q[1], q[2]) \in Candidates
      <4>1. q[1] \in Frame /\ q[2] \in TempFiles
        OBVIOUS
      <4> QED
        BY <4>1, KindsFacts, CandidateType
    <3>2. old \subseteq Frame \X TempFiles
      OBVIOUS
    <3> HIDE DEF old
    <3> QED
      BY <3>1, <3>2
  <2>3. dirs \subseteq Candidates
    <3>1. \A g \in Frame : Candidate("empty_dir", g, "reports") \in Candidates
      BY KindsFacts, CandidateType
    <3> QED
      BY <3>1
  <2>4. clean' = [clean EXCEPT !.pc = "packs", !.left = Frame,
                               !.todo = @ \cup index \cup temps \cup dirs]
    BY <1>3 DEF DiscoverFiles
  <2> HIDE DEF index, temps, dirs
  <2> QED
    BY <2>1, <2>2, <2>3, <2>4 DEF TypeOK, CleanType
<1> QED
  BY <1>1, <1>2, <1>3

\* The steps of a cleanup.
LEMMA CleanTypeOK ==
    ASSUME TypeOK, CleanStep
    PROVE  TypeOK'
<1>1. ASSUME NEW p \in Policies, StartCleanup(p) PROVE TypeOK'
  <2>1. count.maintenance \in 0..MaxMaintenance /\ count.maintenance < MaxMaintenance
    BY <1>1 DEF StartCleanup, TypeOK
  <2>2. count.maintenance + 1 \in 0..MaxMaintenance
    BY <2>1, StoreCleanupAssumption
  <2>3. count' \in [failed : 0..1, reports : 0..MaxReports,
                    maintenance : 0..MaxMaintenance, crashes : 0..MaxCrashes]
    BY <1>1, <2>2 DEF StartCleanup, TypeOK
  <2>4. clean' \in CleanType
    BY <1>1 DEF StartCleanup, CleanType
  <2> QED
    BY <1>1, <2>3, <2>4 DEF StartCleanup, TypeOK, CleanType
<1>2. CASE DiscoverFiles \/ \E f \in Frame : DiscoverReports(f) \/ DiscoverPack(f)
  <2>1. clean' \in CleanType
    BY <1>2, FoundType
  <2>2. overtaken' \subseteq Frame
    BY <1>2 DEF DiscoverReports, DiscoverPack, DiscoverFiles, Overtaken, TypeOK
  <2> QED
    BY <1>2, <2>1, <2>2 DEF DiscoverReports, DiscoverPack, DiscoverFiles, TypeOK, CleanType
<1>3. CASE StartDeleting
  BY <1>3 DEF StartDeleting, TypeOK
<1>4. ASSUME NEW c \in clean.todo, Delete(c) PROVE TypeOK'
  <2>1. age' \in [Paths -> Ages]
    BY <1>4 DEF Delete, TypeOK, Ages, Absent
  <2>2. clean' \in CleanType
    <3>1. PICK e \in BOOLEAN : clean' = [clean EXCEPT !.todo = @ \ {c}, !.errors = @ \/ e]
      BY <1>4 DEF Delete, EmptyDir, Exists
    <3> QED
      BY <3>1 DEF TypeOK, CleanType
  <2>3. reports' \subseteq Frame
    BY <1>4 DEF Delete, TypeOK
  <2> QED
    BY <1>4, <2>1, <2>2, <2>3 DEF Delete, TypeOK, CleanType
<1>5. CASE EndCleanup
  BY <1>5, IdleCleanType DEF EndCleanup, TypeOK
<1> QED
  BY <1>1, <1>2, <1>3, <1>4, <1>5 DEF CleanStep

\* The record of a backup.
BackupType ==
    [pc : {"idle", "copy", "partial"}, left : SUBSET (Frame \X WalkNames),
     taskframe : [Frame -> Snapshot], summary : [Frame -> Snapshot]]

\* The steps of a backup.
LEMMA BackupTypeOK ==
    ASSUME TypeOK, BackupStep
    PROVE  TypeOK'
<1>1. CASE StartBackup
  <2>1. count.maintenance \in 0..MaxMaintenance /\ count.maintenance < MaxMaintenance
    BY <1>1 DEF StartBackup, TypeOK
  <2>2. count.maintenance + 1 \in 0..MaxMaintenance
    BY <2>1, StoreCleanupAssumption
  <2>3. count' \in [failed : 0..1, reports : 0..MaxReports,
                    maintenance : 0..MaxMaintenance, crashes : 0..MaxCrashes]
    BY <1>1, <2>2 DEF StartBackup, TypeOK
  <2>4. backup' \in BackupType
    <3> DEFINE listed == {q \in Frame \X WalkNames : Listed(q[1], q[2])}
    <3>1. listed \in SUBSET (Frame \X WalkNames)
      OBVIOUS
    <3>2. backup' = [IdleBackup EXCEPT !.pc = "copy", !.left = listed]
      BY <1>1 DEF StartBackup
    <3> HIDE DEF listed
    <3> QED
      BY <3>1, <3>2, IdleBackupType DEF BackupType
  <2> QED
    BY <1>1, <2>3, <2>4 DEF StartBackup, TypeOK, BackupType
<1>2. ASSUME NEW f \in Frame, NEW name \in WalkNames, CopyFile(f, name) PROVE TypeOK'
  <2>1. PICK t \in Snapshot, s \in Snapshot :
            backup' = [backup EXCEPT !.left = @ \ {<<f, name>>},
                                     !.taskframe[f] = t, !.summary[f] = s]
    <3> DEFINE t == IF name = "taskframe" THEN taskframe[f] ELSE backup.taskframe[f]
               s == IF name = "summary" THEN summary[f] ELSE backup.summary[f]
    <3>1. t \in Snapshot /\ s \in Snapshot
      BY DEF TypeOK
    <3>2. backup' = [backup EXCEPT !.left = @ \ {<<f, name>>},
                                   !.taskframe[f] = t, !.summary[f] = s]
      BY <1>2 DEF CopyFile
    <3> QED
      BY <3>1, <3>2
  <2>2. backup' \in BackupType
    BY <2>1 DEF TypeOK, BackupType
  <2> QED
    BY <1>2, <2>2 DEF CopyFile, TypeOK, BackupType
<1>3. CASE EndBackup \/ \E f \in Frame, name \in WalkNames :
                              SkipFile(f, name) \/ BackupRaises(f, name)
  <2>1. backup \in BackupType
    BY DEF TypeOK, BackupType
  <2>2. \/ \E q \in Frame \X WalkNames : backup' = [backup EXCEPT !.left = @ \ {q}]
        \/ \E pc \in {"idle", "partial"} : backup' = [backup EXCEPT !.pc = pc]
    BY <1>3 DEF SkipFile, BackupRaises, EndBackup
  <2>3. backup' \in BackupType
    BY <2>1, <2>2 DEF BackupType
  <2> QED
    BY <1>3, <2>3 DEF SkipFile, BackupRaises, EndBackup, TypeOK, BackupType
<1> QED
  BY <1>1, <1>2, <1>3 DEF BackupStep

LEMMA NextTypeOK == TypeOK /\ [Next]_vars => TypeOK'
<1> SUFFICES ASSUME TypeOK, UNCHANGED vars PROVE TypeOK'
  BY NextSteps, SaveTypeOK, ReportTypeOK, CleanTypeOK, BackupTypeOK, CrashTypeOK
<1> QED
  BY DEF TypeOK, vars

(***************************************************************************)
(* What the passes of a cleanup find.                                       *)
(***************************************************************************)

LEMMA ReportsFound ==
    ASSUME TypeOK, NEW f \in Frame, DiscoverReports(f)
    PROVE  /\ clean.pc = "reports" /\ clean'.pc = "reports" /\ clean'.policy = clean.policy
           /\ \A c \in clean'.todo \ clean.todo :
                 /\ c.kind = "report" /\ c.path[1] = f
                 /\ c.path[2] \in {"run_report", "bundle.tmp"}
                 /\ ~FrameIsProtected(clean.policy, f)
<1> DEFINE found == { c \in {Candidate("report", f, n) : n \in {"run_report", "bundle.tmp"}} :
                         /\ Deletes(clean.policy, "report")
                         /\ f \in reports
                         /\ OverLimit(f, c.path[2], clean.policy.max_report_age_days)
                         /\ ~FrameIsProtected(clean.policy, f) }
<1>1. clean' = [clean EXCEPT !.left = @ \ {f}, !.todo = @ \cup found] /\ clean.pc = "reports"
  BY DEF DiscoverReports
<1>2. \A c \in found : /\ c.kind = "report" /\ c.path[1] = f
                       /\ c.path[2] \in {"run_report", "bundle.tmp"}
                       /\ ~FrameIsProtected(clean.policy, f)
  BY DEF Candidate
<1> HIDE DEF found
<1> QED
  BY <1>1, <1>2 DEF TypeOK

LEMMA PackFound ==
    ASSUME TypeOK, NEW f \in Frame, DiscoverPack(f)
    PROVE  /\ clean.pc = "packs" /\ clean'.pc = "packs" /\ clean'.policy = clean.policy
           /\ \A c \in clean'.todo \ clean.todo :
                 /\ c.kind = "approval_pack" /\ c.path[1] = f /\ c.path[2] = "pack"
                 /\ ~FrameIsProtected(clean.policy, f)
<1> DEFINE found == { c \in {Candidate("approval_pack", f, "pack")} :
                         /\ Deletes(clean.policy, "approval_pack")
                         /\ OverLimit(f, "pack", Old)
                         /\ pack[f] = "USED"
                         /\ ~FrameIsProtected(clean.policy, f) }
<1>1. clean' = [clean EXCEPT !.left = @ \ {f}, !.todo = @ \cup found] /\ clean.pc = "packs"
  BY DEF DiscoverPack
<1>2. \A c \in found : /\ c.kind = "approval_pack" /\ c.path[1] = f /\ c.path[2] = "pack"
                       /\ ~FrameIsProtected(clean.policy, f)
  BY DEF Candidate
<1> HIDE DEF found
<1> QED
  BY <1>1, <1>2 DEF TypeOK

LEMMA FilesFound ==
    ASSUME TypeOK, DiscoverFiles
    PROVE  /\ clean.pc = "reports" /\ clean'.pc = "packs" /\ clean'.policy = clean.policy
           /\ \A c \in clean'.todo \ clean.todo :
                 \/ c.kind = "artifact_index" /\ c.path = IndexPath
                 \/ /\ c.kind = "temp_file" /\ c.path[1] \in Frame /\ c.path[2] \in TempFiles
                    /\ OverLimit(c.path[1], c.path[2], clean.policy.max_temp_age_days)
                 \/ c.kind = "empty_dir" /\ c.path[2] = "reports"
<1> DEFINE p == clean.policy
           index == { c \in {[kind |-> "artifact_index", path |-> IndexPath]} :
                       Deletes(p, "artifact_index") /\ Exists(IndexPath) }
           old == { r \in Frame \X TempFiles :
                            /\ Deletes(p, "temp_file")
                            /\ OverLimit(r[1], r[2], p.max_temp_age_days) }
           temps == { Candidate("temp_file", q[1], q[2]) : q \in old }
           dirs == { Candidate("empty_dir", f, "reports") : f \in
                       { g \in Frame : Deletes(p, "empty_dir") /\ EmptyDir(g) } }
<1>1. /\ clean.pc = "reports"
      /\ clean' = [clean EXCEPT !.pc = "packs", !.left = Frame,
                                !.todo = @ \cup index \cup temps \cup dirs]
  BY DEF DiscoverFiles
<1>2. \A c \in index : c.kind = "artifact_index" /\ c.path = IndexPath
  OBVIOUS
<1>3. \A c \in temps : /\ c.kind = "temp_file" /\ c.path[1] \in Frame /\ c.path[2] \in TempFiles
                       /\ OverLimit(c.path[1], c.path[2], clean.policy.max_temp_age_days)
  <2>1. ASSUME NEW q \in old
        PROVE  LET c == Candidate("temp_file", q[1], q[2]) IN
                 /\ c.kind = "temp_file" /\ c.path[1] \in Frame /\ c.path[2] \in TempFiles
                 /\ OverLimit(c.path[1], c.path[2], clean.policy.max_temp_age_days)
    <3>1. q[1] \in Frame /\ q[2] \in TempFiles /\ OverLimit(q[1], q[2], p.max_temp_age_days)
      OBVIOUS
    <3>2. LET c == Candidate("temp_file", q[1], q[2]) IN
            c.kind = "temp_file" /\ c.path[1] = q[1] /\ c.path[2] = q[2]
      BY DEF Candidate
    <3> QED
      BY <3>1, <3>2
  <2> HIDE DEF old
  <2> QED
    BY <2>1
<1>4. \A c \in dirs : c.kind = "empty_dir" /\ c.path[2] = "reports"
  <2>1. \A g \in Frame : /\ Candidate("empty_dir", g, "reports").kind = "empty_dir"
                         /\ Candidate("empty_dir", g, "reports").path[2] = "reports"
    BY DEF Candidate
  <2> QED
    BY <2>1
<1> HIDE DEF index, temps, dirs
<1> QED
  BY <1>1, <1>2, <1>3, <1>4 DEF TypeOK

\* Afterwards the list only gets shorter.
LEMMA ListShrinks ==
    ASSUME TypeOK, StartDeleting \/ (\E c \in clean.todo : Delete(c)) \/ EndCleanup
    PROVE  clean'.todo \subseteq clean.todo
<1>1. CASE StartDeleting
  BY <1>1 DEF StartDeleting, TypeOK
<1>2. ASSUME NEW c \in clean.todo, Delete(c) PROVE clean'.todo \subseteq clean.todo
  <2>1. clean'.todo = clean.todo \ {c}
    BY <1>2 DEF Delete, TypeOK
  <2> QED
    BY <2>1
<1>3. CASE EndCleanup
  BY <1>3, IdleCleanType DEF EndCleanup
<1> QED
  BY <1>1, <1>2, <1>3

\* Nobody else touches the list of a cleanup.
LEMMA CleanUnchanged ==
    SaveStep \/ ReportStep \/ BackupStep \/ CrashStep \/ UNCHANGED vars => clean' = clean
BY DEF SaveStep, ReportStep, BackupStep, CrashStep, vars, BeginSave, SaveFails, MoveTaskframe,
       FillSummary, MoveSummary, BeginReport, FillBundle, WriteReport, ReportFails, RebuildIndex,
       DaysPass, CopyFile, SkipFile, BackupRaises, StartBackup, EndBackup, Crash

LEMMA ShapeStep ==
    ASSUME TypeOK, CandidateShape, [Next]_vars
    PROVE  CandidateShape'
<1>1. CASE clean' = clean
  BY <1>1 DEF CandidateShape
<1>2. ASSUME NEW p \in Policies, StartCleanup(p) PROVE CandidateShape'
  BY <1>2 DEF StartCleanup, CandidateShape
<1>3. ASSUME NEW f \in Frame, DiscoverReports(f) PROVE CandidateShape'
  BY <1>3, ReportsFound DEF CandidateShape, EvidenceKinds
<1>4. ASSUME NEW f \in Frame, DiscoverPack(f) PROVE CandidateShape'
  BY <1>4, PackFound DEF CandidateShape, EvidenceKinds
<1>5. CASE DiscoverFiles
  BY <1>5, FilesFound DEF CandidateShape, EvidenceKinds
<1>6. CASE StartDeleting
  BY <1>6 DEF StartDeleting, CandidateShape, TypeOK
<1>7. ASSUME NEW c \in clean.todo, Delete(c) PROVE CandidateShape'
  <2>1. clean'.todo = clean.todo \ {c} /\ clean'.pc = clean.pc
    BY <1>7 DEF Delete, TypeOK
  <2> QED
    BY <2>1 DEF CandidateShape
<1>8. CASE EndCleanup
  BY <1>8, IdleCleanType DEF EndCleanup, CandidateShape
<1> QED
  BY <1>1, <1>2, <1>3, <1>4, <1>5, <1>6, <1>7, <1>8, NextSteps, CleanUnchanged DEF CleanStep

(***************************************************************************)
(* What is about to be deleted does not matter.                             *)
(***************************************************************************)

\* A frame that is found unprotected, and is not half saved, does not matter.
LEMMA UnprotectedDoesNotMatter ==
    ASSUME NEW p \in Policies, NEW f \in Frame,
           ~FrameIsProtected(p, f), summary[f] = taskframe[f]
    PROVE  ~Matters(p, f)
BY DEF FrameIsProtected, Matters

\* The evidence that no step brings back: packs are not written, and no step but a save
\* changes what is in force in a frame.
LEMMA PacksStay ==
    ASSUME TypeOK, [Next]_vars
    PROVE  /\ pack' = pack
           /\ \A f \in Frame : age'[<<f, "pack">>] # Absent => age[<<f, "pack">>] # Absent
<1>1. ASSUME NEW g \in Frame, NEW n \in TempFiles \cup {"run_report"}, NEW f \in Frame
      PROVE  <<g, n>> # <<f, "pack">> /\ <<f, "pack">> # IndexPath
  BY <1>1, PathFacts DEF TempFiles
<1>2. \A f \in Frame : <<f, "pack">> \in Paths
  BY PathFacts
<1>3. CASE SaveStep
  BY <1>1, <1>2, <1>3 DEF SaveStep, BeginSave, SaveFails, MoveTaskframe, FillSummary, MoveSummary,
     TypeOK, TempFiles
<1>4. CASE ReportStep
  <2>1. CASE DaysPass
    BY <1>2, <2>1 DEF DaysPass, Exists, TypeOK
  <2>2. ASSUME NEW g \in Frame, FillBundle(g) \/ WriteReport(g)
        PROVE  /\ pack' = pack
               /\ \A f \in Frame : age'[<<f, "pack">>] = age[<<f, "pack">>]
    BY <1>2, <2>2 DEF FillBundle, WriteReport, TypeOK
  <2>3. ASSUME RebuildIndex
        PROVE  /\ pack' = pack
               /\ \A f \in Frame : age'[<<f, "pack">>] = age[<<f, "pack">>]
    BY <1>2, <2>3, PathFacts DEF RebuildIndex, TypeOK
  <2>4. CASE \E g \in Frame : BeginReport(g) \/ ReportFails(g)
    BY <2>4 DEF BeginReport, ReportFails
  <2> QED
    BY <1>4, <2>1, <2>2, <2>3, <2>4 DEF ReportStep
<1>5. CASE CleanStep
  BY <1>2, <1>5 DEF CleanStep, DiscoverReports, DiscoverPack, StartCleanup, DiscoverFiles,
     StartDeleting, EndCleanup, Delete, TypeOK
<1>6. CASE BackupStep \/ CrashStep \/ UNCHANGED vars
  BY <1>6 DEF BackupStep, CopyFile, SkipFile, BackupRaises, StartBackup, EndBackup, CrashStep, Crash, vars
<1> QED
  BY <1>3, <1>4, <1>5, <1>6, NextSteps

\* What did not matter still does not, unless the frame is saved, and then it is overtaken.
LEMMA MattersStays ==
    ASSUME TypeOK, CandidateShape, [Next]_vars, NEW f \in Frame, clean.todo # {},
           clean'.policy = clean.policy, ~Matters(clean.policy, f), f \notin overtaken'
    PROVE  ~Matters(clean.policy, f)'
<1>1. taskframe'[f] = taskframe[f]
  <2>1. CASE \E g \in Frame : MoveTaskframe(g)
    BY <2>1 DEF MoveTaskframe, TypeOK, CandidateShape
  <2>2. CASE ~\E g \in Frame : MoveTaskframe(g)
    <3>1. CASE SaveStep
      BY <2>2, <3>1 DEF SaveStep, BeginSave, SaveFails, FillSummary, MoveSummary
    <3>2. CASE ReportStep
      BY <3>2 DEF ReportStep, BeginReport, FillBundle, WriteReport, ReportFails, RebuildIndex,
         DaysPass
    <3>3. CASE CleanStep
      BY <3>3 DEF CleanStep, DiscoverReports, DiscoverPack, StartCleanup, DiscoverFiles,
         StartDeleting, EndCleanup, Delete
    <3>4. CASE BackupStep \/ CrashStep \/ UNCHANGED vars
      BY <3>4 DEF BackupStep, CopyFile, SkipFile, BackupRaises, StartBackup, EndBackup, CrashStep, Crash, vars
    <3> QED
      BY <3>1, <3>2, <3>3, <3>4, NextSteps
  <2> QED
    BY <2>1, <2>2
<1>2. pack' = pack /\ (age'[<<f, "pack">>] # Absent => age[<<f, "pack">>] # Absent)
  BY PacksStay
<1> QED
  BY <1>1, <1>2 DEF Matters, Protects, PackWaits, Exists

\* Frames stay overtaken as long as a cleanup runs.
LEMMA OvertakenStays ==
    ASSUME TypeOK, [Next]_vars, ~\E p \in Policies : StartCleanup(p)
    PROVE  overtaken \subseteq overtaken'
<1>1. CASE SaveStep
  BY <1>1 DEF SaveStep, BeginSave, SaveFails, MoveTaskframe, FillSummary, MoveSummary
<1>2. CASE ReportStep
  BY <1>2 DEF ReportStep, BeginReport, FillBundle, WriteReport, ReportFails, RebuildIndex, DaysPass
<1>3. CASE CleanStep
  BY <1>3 DEF CleanStep, DiscoverReports, DiscoverPack, DiscoverFiles, StartDeleting, EndCleanup,
     Delete, Overtaken
<1>4. CASE BackupStep \/ CrashStep \/ UNCHANGED vars
  BY <1>4 DEF BackupStep, CopyFile, SkipFile, BackupRaises, StartBackup, EndBackup, CrashStep, Crash, vars
<1> QED
  BY <1>1, <1>2, <1>3, <1>4, NextSteps

\* A pass leaves only those out of overtaken that it has seen whole.
LEMMA SeenWhole ==
    ASSUME NEW f \in Frame, DiscoverReports(f) \/ DiscoverPack(f), f \notin overtaken'
    PROVE  summary[f] = taskframe[f]
BY DEF DiscoverReports, DiscoverPack, Overtaken

LEMMA MatterStep ==
    ASSUME TypeOK, CandidateShape, CandidatesDoNotMatter, [Next]_vars
    PROVE  CandidatesDoNotMatter'
<1>1. CASE \E p \in Policies : StartCleanup(p)
  BY <1>1 DEF StartCleanup, CandidatesDoNotMatter
<1>2. CASE ~\E p \in Policies : StartCleanup(p)
  <2> SUFFICES ASSUME NEW c \in clean'.todo,
                      c.kind \in EvidenceKinds, c.path[1] \notin overtaken'
               PROVE  ~Matters(clean.policy, c.path[1])'
    BY DEF CandidatesDoNotMatter
  <2>1. CandidateShape'
    BY ShapeStep
  <2>2. c.path[1] \in Frame /\ clean'.pc # "idle"
    BY <2>1 DEF CandidateShape
  <2>3. CASE c \in clean.todo
    <3>1. ~Matters(clean.policy, c.path[1])
      BY <1>2, <2>3, OvertakenStays DEF CandidatesDoNotMatter
    <3>2. clean'.policy = clean.policy
      <4>1. CASE clean' = clean
        BY <4>1
      <4>2. CASE \E f \in Frame : DiscoverReports(f) \/ DiscoverPack(f)
        BY <4>2, ReportsFound, PackFound
      <4>3. CASE DiscoverFiles
        BY <4>3, FilesFound
      <4>4. CASE StartDeleting \/ \E d \in clean.todo : Delete(d)
        BY <4>4 DEF StartDeleting, Delete, TypeOK
      <4>5. CASE EndCleanup
        BY <2>2, <4>5, IdleCleanType DEF EndCleanup
      <4> QED
        BY <1>2, <4>1, <4>2, <4>3, <4>4, <4>5, NextSteps, CleanUnchanged DEF CleanStep
    <3> QED
      BY <2>2, <2>3, <3>1, <3>2, MattersStays
  <2>4. CASE c \notin clean.todo
    <3>1. PICK f \in Frame : DiscoverReports(f) \/ DiscoverPack(f)
      <4>1. CASE clean' = clean
        BY <2>4, <4>1
      <4>2. CASE DiscoverFiles
        <5>1. c.kind \in {"artifact_index", "temp_file", "empty_dir"}
          BY <2>4, <4>2, FilesFound
        <5> QED
          BY <5>1 DEF EvidenceKinds
      <4>3. CASE StartDeleting \/ (\E d \in clean.todo : Delete(d)) \/ EndCleanup
        BY <2>4, <4>3, ListShrinks
      <4> QED
        BY <1>2, <4>1, <4>2, <4>3, NextSteps, CleanUnchanged DEF CleanStep
    <3>2. c.path[1] = f /\ ~FrameIsProtected(clean.policy, f) /\ clean'.policy = clean.policy
      BY <2>4, <3>1, ReportsFound, PackFound
    <3>3. ~Matters(clean.policy, f)
      BY <3>1, <3>2, SeenWhole, UnprotectedDoesNotMatter DEF TypeOK
    <3>4. taskframe' = taskframe /\ pack' = pack /\ age' = age
      BY <3>1 DEF DiscoverReports, DiscoverPack
    <3> QED
      BY <3>2, <3>3, <3>4 DEF Matters, Protects, PackWaits, Exists
  <2> QED
    BY <2>3, <2>4
<1> QED
  BY <1>1, <1>2

(***************************************************************************)
(* Temporary files.                                                         *)
(***************************************************************************)

\* All policies delete only temporary files of some age.
Patient == \A p \in Policies : p.max_temp_age_days = Old

LEMMA CrashesCounted ==
    ASSUME TypeOK, [Next]_vars
    PROVE  /\ CrashStep => count'.crashes = count.crashes + 1
           /\ ~CrashStep => count'.crashes = count.crashes
<1>1. CASE CrashStep
  BY <1>1 DEF CrashStep, Crash, TypeOK
<1>2. CASE SaveStep
  BY <1>1, <1>2 DEF SaveStep, BeginSave, SaveFails, MoveTaskframe, FillSummary, MoveSummary, TypeOK
<1>3. CASE ReportStep
  BY <1>1, <1>3 DEF ReportStep, BeginReport, FillBundle, WriteReport, ReportFails, RebuildIndex,
     DaysPass, TypeOK
<1>4. CASE CleanStep
  BY <1>1, <1>4 DEF CleanStep, DiscoverReports, DiscoverPack, StartCleanup, DiscoverFiles,
     StartDeleting, EndCleanup, Delete, TypeOK
<1>5. CASE BackupStep \/ UNCHANGED vars
  BY <1>1, <1>5 DEF BackupStep, CopyFile, SkipFile, BackupRaises, StartBackup, EndBackup, vars, TypeOK
<1> QED
  BY <1>1, <1>2, <1>3, <1>4, <1>5, NextSteps

\* The temporary files of a save are there while it needs them.
LEMMA TempsStep ==
    ASSUME TypeOK, CandidateShape, TempsInUse, [Next]_vars
    PROVE  TempsInUse'
<1> SUFFICES ASSUME Patient, count'.crashes = 0
             PROVE  /\ \A f \in Frame : \A t \in SaveTemps :
                          age'[<<f, t>>] = IF save'[f].pc = t THEN Fresh ELSE Absent
                    /\ \A c \in clean'.todo : c.path[2] \notin SaveTemps
  BY DEF TempsInUse, Patient
<1>1. /\ age \in [Paths -> Ages]
      /\ \A f \in Frame : \A t \in SaveTemps : <<f, t>> \in Paths
  BY PathFacts DEF TypeOK
<1>2. ~CrashStep /\ count.crashes = 0
  BY CrashesCounted, CountFacts
<1>3. /\ \A f \in Frame : \A t \in SaveTemps :
            age[<<f, t>>] = IF save[f].pc = t THEN Fresh ELSE Absent
      /\ \A c \in clean.todo : c.path[2] \notin SaveTemps
  BY <1>2 DEF TempsInUse, Patient
<1>4. CASE SaveStep
  <2>1. PICK g \in Frame : BeginSave(g) \/ SaveFails(g) \/ MoveTaskframe(g) \/ FillSummary(g)
                           \/ MoveSummary(g)
    BY <1>4 DEF SaveStep
  <2>2. clean' = clean
    BY <1>4, CleanUnchanged
  <2>3. ASSUME NEW f \in Frame, NEW t \in SaveTemps
        PROVE  age'[<<f, t>>] = IF save'[f].pc = t THEN Fresh ELSE Absent
    <3>1. CASE BeginSave(g)
      <4>1. /\ save'[g].pc = "taskframe.tmp" /\ save[g].pc = "idle"
            /\ f # g => save'[f] = save[f]
            /\ age' = [age EXCEPT ![<<g, "taskframe.tmp">>] = Fresh]
        BY <3>1 DEF BeginSave, TypeOK
      <4>2. age'[<<f, t>>] = IF f = g /\ t = "taskframe.tmp" THEN Fresh ELSE age[<<f, t>>]
        BY <1>1, <4>1
      <4> QED
        BY <1>3, <4>1, <4>2 DEF SaveTemps
    <3>2. CASE SaveFails(g)
      <4>1. age[<<g, save[g].pc>>] = Absent /\ save[g].pc \in SaveTemps
        BY <3>2 DEF SaveFails, SaveTemps, Exists
      <4> QED
        BY <1>3, <4>1 DEF Absent, Fresh
    <3>3. CASE MoveTaskframe(g)
      <4>1. /\ save'[g].pc = "between" /\ save[g].pc = "taskframe.tmp"
            /\ f # g => save'[f] = save[f]
            /\ age' = [age EXCEPT ![<<g, "taskframe.tmp">>] = Absent]
        BY <3>3 DEF MoveTaskframe, TypeOK
      <4>2. age'[<<f, t>>] = IF f = g /\ t = "taskframe.tmp" THEN Absent ELSE age[<<f, t>>]
        BY <1>1, <4>1
      <4> QED
        BY <1>3, <4>1, <4>2 DEF SaveTemps
    <3>4. CASE FillSummary(g)
      <4>1. /\ save'[g].pc = "summary.tmp" /\ save[g].pc = "between"
            /\ f # g => save'[f] = save[f]
            /\ age' = [age EXCEPT ![<<g, "summary.tmp">>] = Fresh]
        BY <3>4 DEF FillSummary, TypeOK
      <4>2. age'[<<f, t>>] = IF f = g /\ t = "summary.tmp" THEN Fresh ELSE age[<<f, t>>]
        BY <1>1, <4>1
      <4> QED
        BY <1>3, <4>1, <4>2 DEF SaveTemps
    <3>5. CASE MoveSummary(g)
      <4>1. /\ save'[g].pc = "idle" /\ save[g].pc = "summary.tmp"
            /\ f # g => save'[f] = save[f]
            /\ age' = [age EXCEPT ![<<g, "summary.tmp">>] = Absent]
        BY <3>5 DEF MoveSummary, TypeOK, IdleSave
      <4>2. age'[<<f, t>>] = IF f = g /\ t = "summary.tmp" THEN Absent ELSE age[<<f, t>>]
        BY <1>1, <4>1
      <4> QED
        BY <1>3, <4>1, <4>2 DEF SaveTemps
    <3> QED
      BY <2>1, <3>1, <3>2, <3>3, <3>4, <3>5
  <2> QED
    BY <1>3, <2>2, <2>3
<1>5. CASE ReportStep
  <2>1. clean' = clean /\ save' = save
    BY <1>5 DEF ReportStep, BeginReport, FillBundle, WriteReport, ReportFails, RebuildIndex, DaysPass
  <2>2. CASE DaysPass
    <3>1. ASSUME NEW f \in Frame, NEW t \in SaveTemps
          PROVE  age[<<f, t>>] = Absent /\ save[f].pc # t
      BY <1>3, <2>2 DEF DaysPass, SaveTemps
    <3>2. ASSUME NEW f \in Frame, NEW t \in SaveTemps PROVE age'[<<f, t>>] = Absent
      BY <1>1, <2>2, <3>1 DEF DaysPass, Exists
    <3> QED
      BY <1>3, <2>1, <3>1, <3>2
  <2>3. CASE ~DaysPass
    <3>1. \A f \in Frame : \A t \in SaveTemps : age'[<<f, t>>] = age[<<f, t>>]
      BY <1>1, <1>5, <2>3, PathFacts DEF ReportStep, BeginReport, FillBundle, WriteReport,
         ReportFails, RebuildIndex, SaveTemps, TypeOK
    <3> QED
      BY <1>3, <2>1, <3>1
  <2> QED
    BY <2>2, <2>3
<1>6. CASE CleanStep
  <2>1. save' = save
    BY <1>6 DEF CleanStep, DiscoverReports, DiscoverPack, StartCleanup, DiscoverFiles,
       StartDeleting, EndCleanup, Delete
  <2>2. \A c \in clean'.todo : c.path[2] \notin SaveTemps
    <3>1. ASSUME NEW p \in Policies, StartCleanup(p) PROVE clean'.todo = {}
      BY <3>1 DEF StartCleanup
    <3>2. ASSUME NEW f \in Frame, DiscoverReports(f) \/ DiscoverPack(f), NEW c \in clean'.todo
          PROVE  c.path[2] \notin SaveTemps
      BY <1>3, <3>2, ReportsFound, PackFound DEF SaveTemps
    <3>3. ASSUME DiscoverFiles, NEW c \in clean'.todo PROVE c.path[2] \notin SaveTemps
      <4>1. ASSUME NEW f \in Frame, NEW t \in SaveTemps PROVE ~OverLimit(f, t, Old)
        BY <1>3, <4>1 DEF OverLimit, Exists, Absent, Fresh, Old
      <4>2. clean.policy.max_temp_age_days = Old
        BY DEF Patient, TypeOK
      <4>3. CASE c \in clean.todo
        BY <1>3, <4>3
      <4>4. CASE c \notin clean.todo
        BY <3>3, <4>1, <4>2, <4>4, FilesFound DEF SaveTemps, IndexPath
      <4> QED
        BY <4>3, <4>4
    <3>4. CASE StartDeleting \/ (\E c \in clean.todo : Delete(c)) \/ EndCleanup
      BY <1>3, <3>4, ListShrinks
    <3> QED
      BY <1>6, <3>1, <3>2, <3>3, <3>4 DEF CleanStep
  <2>3. \A f \in Frame : \A t \in SaveTemps : age'[<<f, t>>] = age[<<f, t>>]
    <3>1. ASSUME NEW c \in clean.todo, Delete(c), NEW f \in Frame, NEW t \in SaveTemps
          PROVE  age'[<<f, t>>] = age[<<f, t>>]
      <4>1. c.path # <<f, t>>
        BY <1>3, <3>1
      <4> QED
        BY <1>1, <3>1, <4>1 DEF Delete, TypeOK
    <3>2. CASE ~\E c \in clean.todo : Delete(c)
      BY <1>6, <3>2 DEF CleanStep, DiscoverReports, DiscoverPack, StartCleanup, DiscoverFiles,
         StartDeleting, EndCleanup
    <3> QED
      BY <3>1, <3>2
  <2> QED
    BY <1>3, <2>1, <2>2, <2>3
<1>7. CASE BackupStep \/ UNCHANGED vars
  <2>1. clean' = clean /\ save' = save /\ age' = age
    BY <1>7 DEF BackupStep, CopyFile, SkipFile, BackupRaises, StartBackup, EndBackup, vars
  <2> QED
    BY <1>3, <2>1
<1> QED
  BY <1>2, <1>4, <1>5, <1>6, <1>7, NextSteps

\* So a save fails only after a crash.
LEMMA SavesFailStep ==
    ASSUME TypeOK, TempsInUse, SavesFailByCrashOnly, [Next]_vars
    PROVE  SavesFailByCrashOnly'
<1> SUFFICES ASSUME Patient, count'.failed > 0, ~(count'.crashes > 0) PROVE FALSE
  BY DEF SavesFailByCrashOnly, Patient
<1>1. count.failed \in 0..1 /\ count.crashes \in Nat
  BY CountFacts
<1>2. ASSUME NEW f \in Frame, SaveFails(f) PROVE count.crashes > 0
  <2>1. save[f].pc \in SaveTemps /\ age[<<f, save[f].pc>>] = Absent
    BY <1>2 DEF SaveFails, SaveTemps, Exists
  <2>2. CASE count.crashes = 0
    BY <2>1, <2>2 DEF TempsInUse, Patient, Absent, Fresh
  <2> QED
    BY <1>1, <2>2
<1>3. CASE SaveStep
  <2>1. CASE \E f \in Frame : SaveFails(f)
    <3>1. count'.crashes = count.crashes
      BY <2>1 DEF SaveFails, TypeOK
    <3> QED
      BY <1>2, <2>1, <3>1
  <2>2. CASE ~\E f \in Frame : SaveFails(f)
    BY <1>3, <2>2 DEF SaveStep, BeginSave, MoveTaskframe, FillSummary, MoveSummary,
       SavesFailByCrashOnly, Patient
  <2> QED
    BY <2>1, <2>2
<1>4. CASE CrashStep
  <2>1. count'.crashes = count.crashes + 1
    BY <1>4 DEF CrashStep, Crash, TypeOK
  <2> QED
    BY <1>1, <2>1
<1>5. CASE ReportStep \/ CleanStep \/ BackupStep \/ UNCHANGED vars
  <2>1. count'.failed = count.failed /\ count'.crashes = count.crashes
    <3>1. CASE ReportStep
      BY <3>1 DEF ReportStep, BeginReport, FillBundle, WriteReport, ReportFails, RebuildIndex,
         DaysPass, TypeOK
    <3>2. CASE CleanStep
      BY <3>2 DEF CleanStep, DiscoverReports, DiscoverPack, StartCleanup, DiscoverFiles,
         StartDeleting, EndCleanup, Delete, TypeOK
    <3>3. CASE BackupStep \/ UNCHANGED vars
      BY <3>3 DEF BackupStep, CopyFile, SkipFile, BackupRaises, StartBackup, EndBackup, vars, TypeOK
    <3> QED
      BY <1>5, <3>1, <3>2, <3>3
  <2> QED
    BY <2>1 DEF SavesFailByCrashOnly, Patient
<1> QED
  BY <1>3, <1>4, <1>5, NextSteps

(***************************************************************************)
(* Saves and archives.                                                      *)
(***************************************************************************)

\* Only saves and crashes touch the files of a frame.
LEMMA StoreUnchanged ==
    ReportStep \/ CleanStep \/ BackupStep \/ UNCHANGED vars =>
        taskframe' = taskframe /\ summary' = summary /\ save' = save
<1>1. ReportStep => taskframe' = taskframe /\ summary' = summary /\ save' = save
  BY DEF ReportStep, BeginReport, FillBundle, WriteReport, ReportFails, RebuildIndex, DaysPass
<1>2. CleanStep => taskframe' = taskframe /\ summary' = summary /\ save' = save
  BY DEF CleanStep, DiscoverReports, DiscoverPack, StartCleanup, DiscoverFiles, StartDeleting,
     EndCleanup, Delete
<1>3. BackupStep \/ UNCHANGED vars => taskframe' = taskframe /\ summary' = summary /\ save' = save
  BY DEF BackupStep, CopyFile, SkipFile, BackupRaises, StartBackup, EndBackup, vars
<1> QED
  BY <1>1, <1>2, <1>3

\* Only backups touch the archive.
LEMMA ArchiveUnchanged ==
    SaveStep \/ ReportStep \/ CleanStep \/ CrashStep \/ UNCHANGED vars => backup' = backup
<1>1. SaveStep \/ CrashStep => backup' = backup
  BY DEF SaveStep, BeginSave, SaveFails, MoveTaskframe, FillSummary, MoveSummary, CrashStep, Crash
<1>2. ReportStep \/ UNCHANGED vars => backup' = backup
  BY DEF ReportStep, BeginReport, FillBundle, WriteReport, ReportFails, RebuildIndex, DaysPass, vars
<1>3. CleanStep => backup' = backup
  BY DEF CleanStep, DiscoverReports, DiscoverPack, StartCleanup, DiscoverFiles, StartDeleting,
     EndCleanup, Delete
<1> QED
  BY <1>1, <1>2, <1>3

\* SummaryBehind, for one frame.
Behind(t, s, v) ==
    /\ s.version <= t.version
    /\ IF t = NoFile THEN s = NoFile ELSE t.version > 0
    /\ v.pc \in {"between", "summary.tmp"} => v.next = t /\ t # NoFile
    /\ v.pc = "taskframe.tmp" => v.next.version > t.version

LEMMA BehindSteps ==
    ASSUME TypeOK, SummaryBehind, SaveStep \/ CrashStep
    PROVE  /\ \A f \in Frame : Behind(taskframe'[f], summary'[f], save'[f])
           /\ \A f \in Frame : taskframe[f].version <= taskframe'[f].version
<1>1. \A f \in Frame : /\ taskframe[f].version \in Nat /\ summary[f].version \in Nat
                       /\ save[f].next.version \in Nat
                       /\ Behind(taskframe[f], summary[f], save[f])
  BY DEF TypeOK, Snapshot, SummaryBehind, Behind
<1>2. PICK g \in Frame : BeginSave(g) \/ SaveFails(g) \/ MoveTaskframe(g) \/ FillSummary(g)
                         \/ MoveSummary(g) \/ Crash(g)
  BY DEF SaveStep, CrashStep
<1>3. ASSUME NEW f \in Frame, f # g
      PROVE  taskframe'[f] = taskframe[f] /\ summary'[f] = summary[f] /\ save'[f] = save[f]
  BY <1>2, <1>3 DEF BeginSave, SaveFails, MoveTaskframe, FillSummary, MoveSummary, Crash, TypeOK
<1>4. /\ Behind(taskframe'[g], summary'[g], save'[g])
      /\ taskframe[g].version <= taskframe'[g].version
  <2>1. CASE BeginSave(g)
    <3>1. PICK n \in Saved : save'[g] = [pc |-> "taskframe.tmp", next |->
                        [ version |-> taskframe[g].version + 1, state |-> n.state,
                          pending |-> n.pending, executed |-> n.executed ]]
      BY <2>1 DEF BeginSave, TypeOK
    <3>2. save'[g].pc = "taskframe.tmp" /\ save'[g].next.version = taskframe[g].version + 1
      BY <3>1
    <3> QED
      BY <1>1, <2>1, <3>2 DEF BeginSave, Behind
  <2>2. CASE SaveFails(g) \/ Crash(g)
    <3>1. save'[g].pc = "idle" /\ taskframe' = taskframe /\ summary' = summary
      BY <2>2 DEF SaveFails, Crash, TypeOK, IdleSave
    <3> QED
      BY <1>1, <3>1 DEF Behind
  <2>3. CASE MoveTaskframe(g)
    <3>1. /\ save[g].pc = "taskframe.tmp" /\ save'[g].pc = "between"
          /\ save'[g].next = save[g].next /\ taskframe'[g] = save[g].next /\ summary' = summary
      BY <2>3 DEF MoveTaskframe, TypeOK
    <3>2. taskframe'[g].version > taskframe[g].version
      BY <1>1, <3>1 DEF Behind
    <3>3. taskframe'[g] # NoFile
      BY <1>1, <3>1, <3>2 DEF NoFile
    <3> QED
      BY <1>1, <3>1, <3>2, <3>3 DEF Behind
  <2>4. CASE FillSummary(g)
    <3>1. /\ save[g].pc = "between" /\ save'[g].pc = "summary.tmp" /\ save'[g].next = save[g].next
          /\ taskframe' = taskframe /\ summary' = summary
      BY <2>4 DEF FillSummary, TypeOK
    <3> QED
      BY <1>1, <3>1 DEF Behind
  <2>5. CASE MoveSummary(g)
    <3>1. /\ save[g].pc = "summary.tmp" /\ save'[g].pc = "idle"
          /\ taskframe' = taskframe /\ summary'[g] = save[g].next
      BY <2>5 DEF MoveSummary, TypeOK, IdleSave
    <3> QED
      BY <1>1, <3>1 DEF Behind
  <2> QED
    BY <1>2, <2>1, <2>2, <2>3, <2>4, <2>5
<1> QED
  BY <1>1, <1>3, <1>4

LEMMA SummaryStep ==
    ASSUME TypeOK, SummaryBehind, [Next]_vars
    PROVE  SummaryBehind'
<1>1. CASE SaveStep \/ CrashStep
  BY <1>1, BehindSteps DEF SummaryBehind, Behind
<1>2. CASE ReportStep \/ CleanStep \/ BackupStep \/ UNCHANGED vars
  BY <1>2, StoreUnchanged DEF SummaryBehind
<1> QED
  BY <1>1, <1>2, NextSteps

LEMMA ArchiveStep ==
    ASSUME TypeOK, SummaryBehind, ArchiveBehind, ArchiveNotAhead, [Next]_vars
    PROVE  ArchiveBehind' /\ ArchiveNotAhead'
<1>1. CASE SaveStep \/ CrashStep
  <2>1. backup' = backup /\ \A f \in Frame : taskframe[f].version <= taskframe'[f].version
    BY <1>1, ArchiveUnchanged, BehindSteps
  <2>2. \A f \in Frame : /\ backup.summary[f].version \in Nat
                         /\ taskframe[f].version \in Nat /\ taskframe'[f].version \in Nat
    BY NextTypeOK DEF TypeOK, Snapshot
  <2> QED
    BY <2>1, <2>2 DEF ArchiveBehind, ArchiveNotAhead
<1>2. CASE ReportStep \/ CleanStep \/ UNCHANGED vars
  BY <1>2, ArchiveUnchanged, StoreUnchanged DEF ArchiveBehind, ArchiveNotAhead
<1>3. CASE BackupStep
  <2>1. taskframe' = taskframe /\ summary' = summary
    BY <1>3, StoreUnchanged
  <2>2. \A f \in Frame : taskframe[f].version \in Nat
    BY DEF TypeOK, Snapshot
  <2>3. CASE StartBackup
    <3>1. /\ backup'.left = {q \in Frame \X WalkNames : Listed(q[1], q[2])}
          /\ \A f \in Frame : backup'.summary[f].version = 0 /\ backup'.taskframe[f].version = 0
      BY <2>3, IdleBackupType DEF StartBackup, NoFile
    <3>2. ASSUME NEW f \in Frame, <<f, "summary">> \in backup'.left
          PROVE  <<f, "taskframe">> \in backup'.left
      <4>1. summary[f] # NoFile
        BY <3>1, <3>2 DEF Listed
      <4>2. taskframe[f] # NoFile
        BY <4>1 DEF SummaryBehind
      <4> QED
        BY <3>1, <4>2 DEF Listed, WalkNames
    <3>3. ASSUME NEW f \in Frame, <<f, "taskframe">> \in backup'.left
          PROVE  taskframe[f].version > 0
      BY <3>1, <3>3 DEF Listed, SummaryBehind
    <3> QED
      BY <2>1, <2>2, <3>1, <3>2, <3>3 DEF ArchiveBehind, ArchiveNotAhead
  <2>4. ASSUME NEW g \in Frame, NEW name \in WalkNames, CopyFile(g, name)
        PROVE  ArchiveBehind' /\ ArchiveNotAhead'
    <3>1. /\ backup'.left = backup.left \ {<<g, name>>}
          /\ \A f \in Frame : /\ backup'.summary[f] = IF f = g /\ name = "summary"
                                                       THEN summary[f] ELSE backup.summary[f]
                             /\ backup'.taskframe[f] = IF f = g /\ name = "taskframe"
                                                       THEN taskframe[f] ELSE backup.taskframe[f]
      BY <2>4 DEF CopyFile, TypeOK
    <3>2. name = "taskframe" => <<g, "summary">> \notin backup.left
      BY <2>4 DEF CopyFile, NextFile, WalkRank
    <3>3. <<g, name>> \in backup.left
      BY <2>4 DEF CopyFile, NextFile
    <3>4. ASSUME NEW f \in Frame, <<f, "summary">> \in backup'.left
          PROVE  <<f, "taskframe">> \in backup'.left
      BY <3>1, <3>2, <3>4 DEF ArchiveBehind
    <3>5. ArchiveBehind'
      BY <2>1, <3>1, <3>4 DEF ArchiveBehind, SummaryBehind
    <3>6. ASSUME NEW f \in Frame, <<f, "taskframe">> \notin backup'.left
          PROVE  backup'.summary[f].version <= backup'.taskframe[f].version
      <4>1. CASE f = g /\ name = "taskframe"
        BY <3>1, <4>1 DEF ArchiveBehind
      <4>2. CASE f = g /\ name = "summary"
        BY <3>1, <3>3, <3>6, <4>2 DEF ArchiveBehind
      <4>3. CASE f # g \/ name \notin {"summary", "taskframe"}
        BY <3>1, <3>6, <4>3 DEF ArchiveNotAhead
      <4> QED
        BY <4>1, <4>2, <4>3
    <3> QED
      BY <3>5, <3>6 DEF ArchiveNotAhead
  <2>5. CASE EndBackup \/ \E f \in Frame, name \in WalkNames : BackupRaises(f, name)
    <3>1. /\ backup'.left = backup.left /\ backup'.summary = backup.summary
          /\ backup'.taskframe = backup.taskframe
      BY <2>5 DEF EndBackup, BackupRaises, TypeOK
    <3> QED
      BY <2>1, <3>1 DEF ArchiveBehind, ArchiveNotAhead
  <2>6. ASSUME NEW g \in Frame, NEW name \in WalkNames, SkipFile(g, name)
        PROVE  ArchiveBehind' /\ ArchiveNotAhead'
    <3>1. /\ backup'.left = backup.left \ {<<g, name>>}
          /\ backup'.summary = backup.summary /\ backup'.taskframe = backup.taskframe
      BY <2>6 DEF SkipFile, TypeOK
    <3>2. name # "taskframe"
      <4>1. name = "taskframe" => taskframe[g].version > 0
        BY <2>6 DEF SkipFile, NextFile, ArchiveBehind
      <4>2. ~(NoFile.version > 0)
        BY DEF NoFile
      <4> QED
        BY <2>6, <4>1, <4>2 DEF SkipFile, Listed
    <3>3. \A f \in Frame : <<f, "taskframe">> \in backup'.left <=> <<f, "taskframe">> \in backup.left
      BY <3>1, <3>2
    <3> QED
      BY <2>1, <3>1, <3>3 DEF ArchiveBehind, ArchiveNotAhead
  <2> QED
    BY <1>3, <2>3, <2>4, <2>5, <2>6 DEF BackupStep
<1> QED
  BY <1>1, <1>2, <1>3, NextSteps

(***************************************************************************)
(* The theorems.                                                            *)
(***************************************************************************)

LEMMA InitIndInv == Init => IndInv
<1> SUFFICES ASSUME Init PROVE IndInv
  OBVIOUS
<1>1. TypeOK
  BY InitTypeOK
<1>2. clean.todo = {} /\ backup.left = {}
  BY IdleCleanType, IdleBackupType DEF Init
<1>3. CandidateShape /\ CandidatesDoNotMatter
  BY <1>2 DEF CandidateShape, CandidatesDoNotMatter
<1>4. ASSUME NEW f \in Frame, NEW t \in SaveTemps PROVE age[<<f, t>>] = Absent /\ save[f].pc # t
  <2>1. <<f, t>> \in Paths /\ t # "pack" /\ t # "idle"
    BY PathFacts DEF SaveTemps
  <2> QED
    BY <2>1 DEF Init, IdleSave
<1>5. TempsInUse /\ SavesFailByCrashOnly
  BY <1>2, <1>4 DEF Init, TempsInUse, SavesFailByCrashOnly
<1>6. SummaryBehind
  BY DEF Init, SummaryBehind, IdleSave, NoFile
<1>7. ArchiveBehind /\ ArchiveNotAhead
  BY <1>2, IdleBackupType DEF Init, ArchiveBehind, ArchiveNotAhead, NoFile
<1> QED
  BY <1>1, <1>3, <1>5, <1>6, <1>7 DEF IndInv

LEMMA StepIndInv == IndInv /\ [Next]_vars => IndInv'
<1> SUFFICES ASSUME IndInv, [Next]_vars PROVE IndInv'
  OBVIOUS
<1> QED
  BY NextTypeOK, ShapeStep, MatterStep, TempsStep, SavesFailStep, SummaryStep, ArchiveStep
     DEF IndInv

\* The inductive invariant: what is on the list of a cleanup is what it was taken for and
\* does not matter, the temporary files of saves are there, summaries and archives are
\* behind the frames.
THEOREM InvariantCorrect == Spec => []IndInv
BY InitIndInv, StepIndInv, PTL DEF Spec

\* write_json_atomic() and the cleanup: with an age limit on temporary files, a save loses
\* its own only after a crash has left an old one under the name.
THEOREM SavesFailCorrect == Spec => []SavesFailByCrashOnly
<1>1. IndInv => SavesFailByCrashOnly
  BY DEF IndInv
<1> QED
  BY <1>1, InvariantCorrect, PTL

\* backup_runtime_store(): in no archive is a summary ahead of its frame, whenever saves
\* come between the copies.
THEOREM ArchiveCorrect == Spec => []ArchiveNotAhead
<1>1. IndInv => ArchiveNotAhead
  BY DEF IndInv
<1> QED
  BY <1>1, InvariantCorrect, PTL

\* execute_cleanup(): evidence that the policy protects is deleted only from a frame that
\* was saved, or found half saved, while the cleanup ran.
LEMMA EvidenceStep ==
    ASSUME IndInv, [Next]_vars, NEW f \in Frame, LosesEvidence(f), Matters(clean.policy, f)
    PROVE  f \in overtaken
<1>1. TypeOK /\ CandidateShape /\ CandidatesDoNotMatter
  BY DEF IndInv
<1>2. PICK name \in {"run_report", "pack"} :
          age[<<f, name>>] # Absent /\ age'[<<f, name>>] = Absent
  BY DEF LosesEvidence, Exists
<1>3. age \in [Paths -> Ages] /\ <<f, name>> \in Paths
  BY <1>1, PathFacts DEF TypeOK
<1>4. ~SaveStep
  <2>1. ASSUME SaveStep PROVE FALSE
    BY <1>2, <1>3, <2>1 DEF SaveStep, BeginSave, SaveFails, MoveTaskframe, FillSummary,
       MoveSummary, Absent, Fresh
  <2> QED
    BY <2>1
<1>5. ~ReportStep
  <2>1. \A g \in Frame : ~FillBundle(g) /\ ~WriteReport(g)
    BY <1>2, <1>3 DEF FillBundle, WriteReport, Absent, Fresh
  <2>2. ~RebuildIndex
    BY <1>2, <1>3 DEF RebuildIndex, Absent, Fresh
  <2>3. ~DaysPass
    BY <1>2, <1>3 DEF DaysPass, Exists, Absent, Old
  <2>4. \A g \in Frame : ~BeginReport(g) /\ ~ReportFails(g)
    BY <1>2 DEF BeginReport, ReportFails
  <2> QED
    BY <2>1, <2>2, <2>3, <2>4 DEF ReportStep
<1>6. ~BackupStep /\ ~CrashStep /\ ~UNCHANGED vars
  BY <1>2 DEF BackupStep, CopyFile, SkipFile, BackupRaises, StartBackup, EndBackup, CrashStep, Crash, vars
<1>7. PICK c \in clean.todo : Delete(c)
  <2>1. CleanStep
    BY <1>4, <1>5, <1>6, NextSteps
  <2> QED
    BY <1>2, <2>1 DEF CleanStep, DiscoverReports, DiscoverPack, StartCleanup, DiscoverFiles,
       StartDeleting, EndCleanup
<1>8. c.path = <<f, name>> /\ c.kind # "empty_dir"
  BY <1>2, <1>3, <1>7 DEF Delete
<1>9. c.kind \in EvidenceKinds
  <2>1. c.kind \in {"report", "artifact_index", "temp_file", "empty_dir", "approval_pack"}
    BY <1>1, KindsFacts DEF TypeOK, Candidates
  <2>2. c.kind # "temp_file"
    BY <1>1, <1>8 DEF CandidateShape, TempFiles
  <2>3. c.kind # "artifact_index"
    BY <1>1, <1>8, PathFacts DEF CandidateShape
  <2> QED
    BY <1>8, <2>1, <2>2, <2>3 DEF EvidenceKinds
<1> QED
  BY <1>1, <1>8, <1>9 DEF CandidatesDoNotMatter

THEOREM EvidenceCorrect == Spec => EvidenceLostByOverlapOnly
<1>1. IndInv /\ [Next]_vars =>
          [\A f \in Frame : LosesEvidence(f) /\ Matters(clean.policy, f) => f \in overtaken]_vars
  BY EvidenceStep
<1> QED
  BY <1>1, InvariantCorrect, PTL DEF EvidenceLostByOverlapOnly, Spec
=============================================================================
