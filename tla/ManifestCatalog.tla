-------------------------- MODULE ManifestCatalog --------------------------
(***************************************************************************)
(* The manifest files, the workbench that edits them and the runtime that  *)
(* loads them (src/manifest_workbench.py, src/manifest_template_generator  *)
(* .py, runtime/manifest_loader.py).                                       *)
(*                                                                         *)
(* There is no lock.  A workbench operation lists the catalog, decides,    *)
(* and writes or moves files later; a load by the runtime collects the     *)
(* file names first and reads the files one by one.  The workbench lists   *)
(* every *.json of manifests/ and skips what it cannot read; the runtime   *)
(* takes *.manifest.json only and gives up on the first unreadable file    *)
(* or repeated id, whichever manifest was asked for.                       *)
(***************************************************************************)
EXTENDS Naturals, Sequences

CONSTANTS
    Operators,      \* workbench windows, one process each
    Loaders,        \* runtime commands that load a manifest by its id
    Ids,            \* manifest ids
    Bodies,         \* what the loader reads of a manifest, its id left aside
    Files,          \* paths: <<directory, file name>>
    Names,          \* file names
    ManifestNames,  \* those that end in .manifest.json
    TempName,       \* TempName[n]: the name a wizard that is the n-th operation is given
    FileFor,        \* manifest_filename_for_id
    CopyIds,        \* CopyIds[id] = << id_copy, id_copy_2, ... >>
    Texts,          \* manifests an operator may save from the editor
    SavePaths,      \* the paths the editor may have loaded or Save As may name
    Templates,      \* manifests the wizard may build
    InitialDisks,   \* the files before the first operation
    NoFile, Torn,   \* no such file; a file that is not JSON
    MaxOps,         \* bound: workbench operations
    MaxLoads        \* bound: loads by the runtime

Dirs == {"manifests", "config", "archive"}
Forms == {"commands", "kinds", "broken"}

(***************************************************************************)
(* What a manifest file holds: an id; the body, the fields the loader      *)
(* reads; and whether there are extras beside it (side_effect, sample      *)
(* inputs, a side effect policy, a step's own fields).  A form "commands"  *)
(* loads; so does "kinds", whose steps name a kind instead of a command;   *)
(* "broken" is JSON with an id that load_manifest refuses.                 *)
(***************************************************************************)
Manifest == [id : Ids, body : Bodies, form : Forms, extras : BOOLEAN]

ManifestFile(name) == <<"manifests", name>>
ArchiveFile(name) == <<"archive", name>>
TempFile(n) == ManifestFile(TempName[n])
TempNames == {TempName[n] : n \in 1..MaxOps}
TempFiles == {TempFile(n) : n \in 1..MaxOps}

VARIABLES
    disk,       \* disk[f]: the file f, in manifests/, config/manifests/, the archive
    op,         \* op[o]: where operator o's operation stands
    load,       \* load[l]: where loader l stands, and its last answer
    overlapped, \* history: did one operation ever begin before another had ended
    seen,       \* history: what was true at some moment of l's load
    ops, loads  \* the bounds' counters

vars == <<disk, op, load, overlapped, seen, ops, loads>>

-----------------------------------------------------------------------------
(***************************************************************************)
(* The two listings.                                                       *)
(***************************************************************************)

Loadable(c) == c \in Manifest /\ c.form # "broken"

\* list_manifest_catalog: every *.json of both directories that has an id
Listed(d) ==
    {f \in Files : f[1] \in {"manifests", "config"} /\ d[f] \in Manifest}

ListedIds(d) == {d[f].id : f \in Listed(d)}

ASSUME CatalogAssumption ==
    /\ Files \subseteq Dirs \X Names
    /\ \A n \in Names : ManifestFile(n) \in Files /\ ArchiveFile(n) \in Files
    /\ ManifestNames \subseteq Names
    /\ FileFor \in [Ids -> ManifestNames]
    \* NamedTemporaryFile draws a new random name every time
    /\ TempName \in [1..MaxOps -> ManifestNames]
    /\ \A m, n \in 1..MaxOps : TempName[m] = TempName[n] => m = n
    /\ \A i \in Ids : FileFor[i] \notin TempNames
    /\ CopyIds \in [Ids -> Seq(Ids)]
    /\ \A i \in Ids : \A k \in DOMAIN CopyIds[i] : CopyIds[i][k] # i
    /\ Texts \subseteq Manifest
    /\ Templates \subseteq Manifest
    /\ SavePaths \subseteq Files /\ \A f \in SavePaths : f[2] \notin TempNames
    /\ \A d \in InitialDisks :
           /\ d \in [Files -> Manifest \cup {NoFile}]
           /\ \A f \in Files : f[2] \in TempNames => d[f] = NoFile
           /\ \A f, g \in Listed(d) : d[f].id = d[g].id => f = g
    /\ NoFile \notin Manifest /\ Torn \notin Manifest /\ NoFile # Torn
    /\ NoFile \notin Files
    /\ MaxOps \in Nat /\ MaxLoads \in Nat

\* list_archived_manifests, and a restore's check that the file loads
Archived(d) == {f \in Files : f[1] = "archive" /\ Loadable(d[f])}

\* _load_manifest_record_from_dir: what an operation can be started on
Workable(d) == {f \in Listed(d) : Loadable(d[f])}

\* _iter_manifest_paths, which looks at the suffix in manifests/ only
RuntimePath(f) ==
    f[1] = "config" \/ (f[1] = "manifests" /\ f[2] \in ManifestNames)

RuntimeFiles(d) == {f \in Files : d[f] # NoFile /\ RuntimePath(f)}

\* load_manifest_catalog on files that do not change meanwhile
Readable(d) ==
    /\ \A f \in RuntimeFiles(d) : d[f] # Torn
    /\ \A f, g \in RuntimeFiles(d) : d[f].id = d[g].id => f = g

ActiveIds(d) == {d[f].id : f \in {g \in RuntimeFiles(d) : d[g] # Torn}}

\* load_manifest_by_id on files that do not change meanwhile
AnswerOf(d, id) ==
    CASE ~Readable(d) -> "failed"
      [] Readable(d) /\ id \notin ActiveIds(d) -> "missing"
      [] OTHER -> IF \E f \in RuntimeFiles(d) : d[f].id = id /\ Loadable(d[f])
                  THEN "loaded" ELSE "failed"

Runnable(d, id) == AnswerOf(d, id) = "loaded"

\* _manifest_to_dict keeps what load_manifest has read and no more: a step
\* without a command gets its kind as its command, every other field is gone
Converted(m) ==
    [m EXCEPT !.form = IF @ = "kinds" THEN "broken" ELSE @, !.extras = FALSE]

-----------------------------------------------------------------------------
Idle == [at |-> "idle", from |-> NoFile, to |-> NoFile, content |-> NoFile]
NoLoad == [at |-> "idle", id |-> NoFile, left |-> {},
           found |-> [i \in Ids |-> NoFile], answer |-> "none"]
NothingSeen == [expected |-> "none", was |-> {}, wasNot |-> {}, changed |-> FALSE]

Init ==
    /\ disk \in InitialDisks
    /\ op = [o \in Operators |-> Idle]
    /\ load = [l \in Loaders |-> NoLoad]
    /\ overlapped = FALSE
    /\ seen = [l \in Loaders |-> NothingSeen]
    /\ ops = 0 /\ loads = 0

\* The operation has made its checks and goes on to `phase'.
Begin(o, phase, from, to, content) ==
    /\ op[o].at = "idle"
    /\ ops < MaxOps /\ ops' = ops + 1
    /\ op' = [op EXCEPT ![o] = [at |-> phase, from |-> from, to |-> to,
                                content |-> content]]
    /\ overlapped' = (overlapped \/ \E p \in Operators : op[p].at # "idle")
    /\ UNCHANGED <<disk, load, seen, loads>>

(***************************************************************************)
(* The checks.  What they refuse changes nothing, so a refusal is no step. *)
(***************************************************************************)

\* The faulty check of a save looks at the target only.
SaveAllowed_Faulty(text, target, overwrite) ==
    Loadable(text) /\ (disk[target] = NoFile \/ overwrite)

SaveAllowed(text, target, overwrite) ==
    /\ Loadable(text)
    /\ \A f \in Listed(disk) : disk[f].id = text.id => f = target /\ overwrite
    /\ disk[target] = NoFile \/ overwrite

\* Save goes to the path the editor was loaded from and overwrites it, or to
\* the default file; Save As to any path, confirmed.
SaveManifest(o) ==
    \E text \in Texts, overwrite \in BOOLEAN :
    \E target \in IF overwrite THEN SavePaths
                  ELSE {ManifestFile(FileFor[text.id])} :
        /\ SaveAllowed(text, target, overwrite)
        /\ Begin(o, "save", NoFile, target, Converted(text))

\* The first free copy id.
CopyId(id, copy) ==
    \E k \in DOMAIN CopyIds[id] :
        /\ copy = CopyIds[id][k] /\ copy \notin ListedIds(disk)
        /\ \A j \in 1..(k - 1) : CopyIds[id][j] \in ListedIds(disk)

DuplicateManifest(o) ==
    \E f \in Workable(disk), copy \in Ids :
        LET target == ManifestFile(FileFor[copy])
        IN  /\ CopyId(disk[f].id, copy)
            /\ disk[target] = NoFile
            /\ Begin(o, "duplicate", f, target,
                     [Converted(disk[f]) EXCEPT !.id = copy])

RenameManifest(o) ==
    \E f \in Workable(disk), newId \in Ids :
        LET target == ManifestFile(FileFor[newId])
        IN  /\ newId # disk[f].id
            /\ newId \notin ListedIds(disk)
            /\ disk[target] = NoFile
            /\ Begin(o, "rename", f, target,
                     [Converted(disk[f]) EXCEPT !.id = newId])

ArchiveManifest(o) ==
    \E f \in Workable(disk) :
        LET target == ArchiveFile(f[2])
        IN  disk[target] = NoFile /\ Begin(o, "move", f, target, NoFile)

\* The faulty form forgets to look for an active manifest of the same id.
RestoreAllowed_Faulty(f) == disk[ManifestFile(f[2])] = NoFile

RestoreAllowed(f) ==
    /\ disk[f].id \notin ListedIds(disk)
    /\ disk[ManifestFile(f[2])] = NoFile

RestoreManifest(o) ==
    \E f \in Archived(disk) :
        RestoreAllowed(f) /\ Begin(o, "move", f, ManifestFile(f[2]), NoFile)

\* write_manifest_candidate.
CreateFromTemplate(o) ==
    \E m \in Templates :
        LET target == ManifestFile(FileFor[m.id])
        IN  /\ m.form = "commands" /\ m.id \notin ListedIds(disk)
            /\ disk[target] = NoFile /\ ops < MaxOps
            /\ Begin(o, "openTemp", TempFile(ops + 1), target, m)

-----------------------------------------------------------------------------
(***************************************************************************)
(* The steps behind the checks.                                            *)
(***************************************************************************)

\* The operation puts `d' on disk and goes on to `phase', or ends.
Step(o, d, phase) ==
    /\ disk' = d
    /\ op' = [op EXCEPT ![o] = IF phase = "idle" THEN Idle
                               ELSE [@ EXCEPT !.at = phase]]
    /\ UNCHANGED <<load, overlapped, ops, loads>>

\* write_json_atomic replaces the target in one rename.
WriteManifest(o) ==
    /\ op[o].at \in {"save", "duplicate", "rename"}
    /\ Step(o, [disk EXCEPT ![op[o].to] = op[o].content],
            CASE op[o].at = "save" -> "idle"
              [] op[o].at = "duplicate" -> "checkCopy"
              [] op[o].at = "rename" -> "checkRenamed")

\* The file just written must load, or it is removed again.  The faulty form
\* of the check removes the source of a rename before it has looked.
CheckWritten_Faulty(o) ==
    /\ op[o].at \in {"checkCopy", "checkRenamed"}
    /\ IF op[o].at = "checkCopy"
       THEN Step(o, disk, IF Loadable(disk[op[o].to]) THEN "idle" ELSE "undo")
       ELSE Step(o, [disk EXCEPT ![op[o].from] = NoFile],
                 IF Loadable(disk[op[o].to]) THEN "idle" ELSE "undo")

CheckWritten(o) ==
    /\ op[o].at \in {"checkCopy", "checkRenamed"}
    /\ Step(o, disk,
            CASE ~Loadable(disk[op[o].to]) -> "undo"
              [] Loadable(disk[op[o].to]) /\ op[o].at = "checkCopy" -> "idle"
              [] OTHER -> "dropOld")

UndoWrite(o) ==
    /\ op[o].at = "undo"
    /\ Step(o, [disk EXCEPT ![op[o].to] = NoFile], "idle")

DropOld(o) ==
    /\ op[o].at = "dropOld"
    /\ Step(o, [disk EXCEPT ![op[o].from] = NoFile], "idle")

\* Path.rename replaces a file that has appeared at the target since the check.
MoveFile(o) ==
    /\ op[o].at = "move" /\ disk[op[o].from] # NoFile
    /\ Step(o, [disk EXCEPT ![op[o].from] = NoFile,
                            ![op[o].to] = disk[op[o].from]], "idle")

\* The wizard's temporary file is in manifests/ itself and has the suffix the
\* runtime looks for: first empty, then complete, then loaded and renamed.
OpenTemp(o) ==
    /\ op[o].at = "openTemp"
    /\ Step(o, [disk EXCEPT ![op[o].from] = Torn], "fillTemp")

FillTemp(o) ==
    /\ op[o].at = "fillTemp"
    /\ Step(o, [disk EXCEPT ![op[o].from] = op[o].content], "publish")

Publish(o) ==
    /\ op[o].at = "publish" /\ Loadable(disk[op[o].from])
    /\ Step(o, [disk EXCEPT ![op[o].from] = NoFile,
                            ![op[o].to] = disk[op[o].from]], "idle")

\* The file operation raises and is answered with an error: a write or a move
\* has changed nothing, a rename keeps both files, the wizard removes its own.
FileError(o) ==
    \/ /\ op[o].at \in {"save", "duplicate", "rename", "move", "undo",
                        "dropOld", "openTemp"}
       /\ Step(o, disk, "idle")
    \/ /\ op[o].at \in {"fillTemp", "publish"}
       /\ Step(o, [disk EXCEPT ![op[o].from] = NoFile], "idle")

\* The process ends: what it has done to the files stays.
Crash(o) ==
    /\ op[o].at # "idle"
    /\ Step(o, disk, "idle")

-----------------------------------------------------------------------------
(***************************************************************************)
(* A load by the runtime: the names first, then file after file, then the  *)
(* file the catalog named once more.                                       *)
(***************************************************************************)

StartLoad(l, id) ==
    /\ load[l].at = "idle" /\ loads < MaxLoads /\ loads' = loads + 1
    /\ load' = [load EXCEPT ![l] =
                    [at |-> "reading", id |-> id, left |-> RuntimeFiles(disk),
                     found |-> NoLoad.found, answer |-> "none"]]
    /\ UNCHANGED <<disk, op, overlapped, ops>>

Answer(l, answer) ==
    /\ load' = [load EXCEPT ![l] = [NoLoad EXCEPT !.id = load[l].id,
                                                  !.answer = answer]]
    /\ UNCHANGED <<disk, op, overlapped, ops, loads>>

\* The order of the names matters to nothing below: any file may be next.
ReadNext(l) ==
    /\ load[l].at = "reading"
    /\ \E f \in load[l].left :
        IF \/ disk[f] \in {NoFile, Torn}
           \/ load[l].found[disk[f].id] # NoFile
        THEN Answer(l, "failed")
        ELSE /\ load' = [load EXCEPT ![l].left = @ \ {f},
                                     ![l].found[disk[f].id] = f]
             /\ UNCHANGED <<disk, op, overlapped, ops, loads>>

\* The faulty form answers from the names alone, without the second read.
OpenFound_Faulty(l) ==
    /\ load[l].at = "reading" /\ load[l].left = {}
    /\ Answer(l, IF load[l].found[load[l].id] = NoFile THEN "missing" ELSE "loaded")

OpenFound(l) ==
    /\ load[l].at = "reading" /\ load[l].left = {}
    /\ LET f == load[l].found[load[l].id]
       IN  Answer(l, CASE f = NoFile -> "missing"
                       [] f # NoFile /\ Loadable(disk[f]) -> "loaded"
                       [] OTHER -> "failed")

-----------------------------------------------------------------------------
(***************************************************************************)
(* History: what a load could have found at one moment or another.         *)
(***************************************************************************)
Watch ==
    seen' = [l \in Loaders |->
        IF load'[l].at # "reading" THEN seen[l]
        ELSE LET s == IF load[l].at = "idle"
                      THEN [NothingSeen EXCEPT !.expected = AnswerOf(disk, load'[l].id)]
                      ELSE seen[l]
             IN  [expected |-> s.expected,
                  was |-> s.was \cup ActiveIds(disk'),
                  wasNot |-> s.wasNot \cup (Ids \ ActiveIds(disk')),
                  changed |-> s.changed \/ disk' # disk]]

BeginOp(o) ==
    \/ SaveManifest(o) \/ DuplicateManifest(o) \/ RenameManifest(o)
    \/ ArchiveManifest(o) \/ RestoreManifest(o) \/ CreateFromTemplate(o)

OpStep(o) ==
    \/ WriteManifest(o) \/ CheckWritten(o) \/ UndoWrite(o) \/ DropOld(o)
    \/ MoveFile(o) \/ OpenTemp(o) \/ FillTemp(o) \/ Publish(o)
    \/ FileError(o) \/ Crash(o)

LoadStep(l) ==
    \/ \E id \in Ids : StartLoad(l, id)
    \/ ReadNext(l) \/ OpenFound(l)

Next ==
    \/ \E o \in Operators : BeginOp(o)
    \/ \E o \in Operators : OpStep(o) /\ Watch
    \/ \E l \in Loaders : LoadStep(l) /\ Watch

Spec == Init /\ [][Next]_vars

-----------------------------------------------------------------------------
(***************************************************************************)
(* Properties.                                                             *)
(***************************************************************************)

Places == Files \cup {NoFile}
Phases == {"idle", "save", "duplicate", "rename", "checkCopy", "checkRenamed",
           "undo", "dropOld", "move", "openTemp", "fillTemp", "publish"}
Answers == {"none", "loaded", "missing", "failed"}

\* What an operation under way has settled.
WellFormed(r) ==
    r.at # "idle" => /\ r.to \in Files
                     /\ r.at # "save" => r.from \in Files
                     /\ r.at # "move" => r.content \in Manifest

\* The types of the files, of the operations and of the loads.
Disk == [Files -> Manifest \cup {NoFile, Torn}]
Operation == [at : Phases, from : Places, to : Places,
              content : Manifest \cup {NoFile}]
Load == [at : {"idle", "reading"}, id : Ids \cup {NoFile}, left : SUBSET Files,
         found : [Ids -> Places], answer : Answers]
Sight == [expected : Answers, was : SUBSET Ids, wasNot : SUBSET Ids,
          changed : BOOLEAN]

TypeOK ==
    /\ disk \in Disk
    /\ op \in [Operators -> Operation]
    /\ \A o \in Operators : WellFormed(op[o])
    /\ load \in [Loaders -> Load]
    /\ overlapped \in BOOLEAN
    /\ seen \in [Loaders -> Sight]
    /\ ops \in 0..MaxOps /\ loads \in 0..MaxLoads

\* While operations do not overlap, whatever has crashed or failed before, no
\* id stands in two files of the catalog (a save, a duplicate, a rename, a
\* restore and the wizard each look before they write), and only a wizard's
\* temporary file is ever half written.
IdsAreUnique(d) == \A f, g \in Listed(d) : d[f].id = d[g].id => f = g
OnlyTempsTorn(d) == \A f \in Files : d[f] = Torn => f \in TempFiles

Active(o) == op[o].at # "idle"
OneAtATime == \A o, p \in Operators : Active(o) /\ Active(p) => o = p

\* What the operation has checked, and still relies on.
IdIsFree(d, id, but) == \A f \in Listed(d) : d[f].id = id => f = but

ChecksHold(d, r) ==
    /\ r.at \in {"save", "duplicate", "rename"} => IdIsFree(d, r.content.id, r.to)
    /\ r.at \in {"duplicate", "rename", "checkCopy", "checkRenamed", "undo", "dropOld"} =>
           /\ r.from # r.to
           /\ d[r.from] \in Manifest /\ d[r.from].body = r.content.body
           /\ ~r.content.extras
           /\ d[r.to] = IF r.at \in {"duplicate", "rename"} THEN NoFile ELSE r.content
           /\ r.at = "undo" => ~Loadable(r.content)
    /\ r.at = "move" =>
           /\ d[r.from] \in Manifest /\ d[r.to] = NoFile
           /\ r.from[1] = "archive" => IdIsFree(d, d[r.from].id, r.to)
    /\ r.at \in {"openTemp", "fillTemp", "publish"} =>
           /\ r.from \in TempFiles /\ r.to \notin TempFiles
           /\ d[r.to] = NoFile /\ IdIsFree(d, r.content.id, r.from)
           /\ d[r.from] = CASE r.at = "openTemp" -> NoFile
                            [] r.at = "fillTemp" -> Torn
                            [] OTHER -> r.content
           /\ \A f \in Files : f[2] = r.from[2] => f = r.from \/ d[f] = NoFile

\* Whatever overlaps: a move keeps the file's name and crosses the archive's
\* border, only a wizard writes under a temporary name, and only under its own.
Making(r) == r.at \in {"openTemp", "fillTemp", "publish"}

PathsFit(r, drawn) ==
    /\ r.at = "move" => /\ r.to[2] = r.from[2]
                        /\ r.to[1] = "archive" <=> r.from[1] # "archive"
    /\ r.at \notin {"idle", "move"} => r.to[2] \notin TempNames
    /\ Making(r) => \E n \in 1..drawn : r.from = TempFile(n)

\* No file has a temporary name that has not been drawn.
NewNamesFree ==
    \A n \in 1..MaxOps, f \in Files :
        n > ops /\ f[2] = TempName[n] => disk[f] = NoFile

\* The files and the checks hold as long as operations do not overlap.
IndInv ==
    /\ TypeOK
    /\ \A o \in Operators : PathsFit(op[o], ops)
    /\ NewNamesFree
    /\ ~overlapped => /\ OneAtATime /\ IdsAreUnique(disk) /\ OnlyTempsTorn(disk)
                      /\ \A o \in Operators : ChecksHold(disk, op[o])

\* While operations do not overlap, the runtime's all-or-nothing catalog can be
\* read, except while a wizard's temporary file stands there half written.
CatalogReadable ==
    overlapped \/ Readable(disk) \/ \E f \in TempFiles : disk[f] = Torn

\* A manifest that could be run stops being so only because it was archived,
\* renamed or saved over, or because a wizard opens its temporary file, which
\* stops every manifest: no operation takes another manifest out of service.
HasId(f, id) == disk[f] \in Manifest /\ disk[f].id = id

StopsBecause(o, id) ==
    \/ op[o].at \in {"move", "dropOld", "publish"} /\ HasId(op[o].from, id)
    \/ op[o].at = "save" /\ HasId(op[o].to, id)
    \/ op[o].at = "openTemp"

StaysRunnable ==
    [][disk' = disk \/ \A id \in Ids :
           Runnable(disk, id) /\ ~Runnable(disk', id) =>
           \/ overlapped
           \/ \E o \in Operators : op[o].at # "idle" /\ StopsBecause(o, id)]_vars

\* While operations do not overlap, what the runtime reads of a manifest leaves
\* the disk only when a save replaces it: a duplicate, a rename, an archive or
\* a restore that stops anywhere has it in one file or another.  The whole of
\* it, with its extras, leaves the disk by a save or by the last step of a
\* rename, whose new file has none: no archive, restore or duplicate, and no
\* rename that fails or stops before that step, loses them.  The file a wizard
\* has not published yet is not counted.
Unpublished == {op[o].from : o \in {p \in Operators : op[p].at \in {"fillTemp", "publish"}}}

OnDisk(body, whole) ==
    \E f \in Files \ Unpublished :
        disk[f] \in Manifest /\ disk[f].body = body /\ (whole => disk[f].extras)

MayLose(o, whole) == op[o].at = "save" \/ (whole /\ op[o].at = "dropOld")

NothingLost ==
    [][disk' = disk \/ \A body \in Bodies, whole \in BOOLEAN :
           OnDisk(body, whole) /\ ~OnDisk(body, whole)'
           => overlapped \/ \E o \in Operators : MayLose(o, whole)]_vars

\* A load that reads file after file answers as it would have at once when
\* nothing changes meanwhile; and whatever changes, it loads no manifest that
\* was active at no moment of it, and while operations do not overlap it
\* misses none that was active throughout.
Honest(l) ==
    load[l].answer # "none" =>
        /\ ~seen[l].changed => load[l].answer = seen[l].expected
        /\ load[l].answer = "loaded" => load[l].id \in seen[l].was
        /\ load[l].answer = "missing" => overlapped \/ load[l].id \in seen[l].wasNot

LoadsAreHonest == \A l \in Loaders : Honest(l)

(***************************************************************************)
(* The invariant of a load under way, behind LoadsAreHonest.               *)
(***************************************************************************)

\* With the files as they were: what is read is found under its id, and no
\* more than that.
AsRead(l) ==
    LET files == RuntimeFiles(disk)
        r == load[l]
    IN  /\ seen[l].expected = AnswerOf(disk, r.id)
        /\ r.left \subseteq files
        /\ \A f \in files \ r.left : disk[f] # Torn /\ r.found[disk[f].id] = f
        /\ \A i \in Ids : r.found[i] # NoFile =>
               r.found[i] \in files \ r.left /\ disk[r.found[i]].id = i

\* A wizard's temporary file that was there and can never be there again.
Gone(f) ==
    /\ \E n \in 1..ops : f = TempFile(n)
    /\ \A g \in Files : g[2] = f[2] => disk[g] = NoFile
    /\ \A o \in Operators : Making(op[o]) => op[o].from # f

\* The load cannot miss the id: it has found it, will read the file that has
\* it, or will fail on a file that has been published under another name.
InSight(l, id) ==
    \/ load[l].found[id] # NoFile
    \/ \E f \in load[l].left : HasId(f, id) \/ Gone(f)

LoadFits(l) ==
    load[l].at = "reading" =>
        /\ load[l].id \in Ids /\ load[l].answer = "none"
        /\ \A f \in load[l].left : RuntimePath(f)
        /\ ActiveIds(disk) \subseteq seen[l].was
        /\ Ids \ ActiveIds(disk) \subseteq seen[l].wasNot
        /\ \A i \in Ids : load[l].found[i] # NoFile => i \in seen[l].was
        /\ ~seen[l].changed => AsRead(l)
        /\ ~overlapped => \A i \in Ids \ seen[l].wasNot : InSight(l, i)

LoadInv == LoadsAreHonest /\ \A l \in Loaders : LoadFits(l)

\* What the manual says of a restore: the manifest is in the active catalog
\* again, for the runtime as for the workbench.
RestoredIsActive ==
    [][\A f \in Archived(disk) :
           (\E o \in Operators : op[o].at = "move" /\ op[o].from = f
                                 /\ disk' # disk /\ disk'[f] = NoFile)
           => disk[f].id \in ActiveIds(disk')]_vars

=============================================================================
