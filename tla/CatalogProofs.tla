--------------------------- MODULE CatalogProofs ---------------------------
(***************************************************************************)
(* Proofs about ManifestCatalog, for any number of operators, loaders,     *)
(* files and manifests.                                                    *)
(***************************************************************************)
EXTENDS ManifestCatalog, TLAPS

(***************************************************************************)
(* Facts about the files alone.                                            *)
(***************************************************************************)

\* Writing a manifest whose id no other listed file has keeps the ids unique.
LEMMA WriteKeepsUnique ==
    ASSUME NEW d \in Disk, NEW f \in Files, NEW m \in Manifest,
           IdsAreUnique(d), IdIsFree(d, m.id, f)
    PROVE  IdsAreUnique([d EXCEPT ![f] = m])
<1> DEFINE e == [d EXCEPT ![f] = m]
<1>1. \A g \in Files : e[g] = IF g = f THEN m ELSE d[g]
  BY DEF Disk
<1>2. \A g \in Listed(e) : g # f => g \in Listed(d)
  BY <1>1 DEF Listed
<1>. QED
  BY <1>1, <1>2 DEF IdsAreUnique, IdIsFree, Listed

\* Removing a file keeps the ids unique and frees none that was free.
LEMMA RemoveKeepsUnique ==
    ASSUME NEW d \in Disk, NEW f \in Files, NEW v \in {NoFile, Torn},
           IdsAreUnique(d)
    PROVE  /\ IdsAreUnique([d EXCEPT ![f] = v])
           /\ \A id, g : IdIsFree(d, id, g) => IdIsFree([d EXCEPT ![f] = v], id, g)
<1> DEFINE e == [d EXCEPT ![f] = v]
<1>1. \A g \in Files : e[g] = IF g = f THEN v ELSE d[g]
  BY DEF Disk
<1>2. v \notin Manifest
  BY CatalogAssumption
<1>3. \A g \in Listed(e) : g \in Listed(d) /\ e[g] = d[g]
  BY <1>1, <1>2 DEF Listed
<1>. HIDE DEF e
<1>4. IdsAreUnique(e)
  BY <1>3 DEF IdsAreUnique
<1>5. \A id, g : IdIsFree(d, id, g) => IdIsFree(e, id, g)
  BY <1>3 DEF IdIsFree
<1>. QED
  BY <1>4, <1>5 DEF e

\* The ids a runtime load may find are ids.
LEMMA ActiveAreIds ==
    ASSUME NEW d \in Disk
    PROVE  ActiveIds(d) \subseteq Ids
<1>. SUFFICES ASSUME NEW f \in RuntimeFiles(d), d[f] # Torn PROVE d[f].id \in Ids
  BY DEF ActiveIds
<1>1. d[f] \in Manifest
  BY DEF RuntimeFiles, Disk
<1>. QED
  BY <1>1 DEF Manifest

\* What the history records of a load has its type.
LEMMA SightTyped ==
    ASSUME seen \in [Loaders -> Sight], ActiveIds(disk') \subseteq Ids, Watch
    PROVE  seen' \in [Loaders -> Sight]
<1> DEFINE S(l) ==
        IF load'[l].at # "reading" THEN seen[l]
        ELSE LET s == IF load[l].at = "idle"
                      THEN [NothingSeen EXCEPT !.expected = AnswerOf(disk, load'[l].id)]
                      ELSE seen[l]
             IN  [expected |-> s.expected,
                  was |-> s.was \cup ActiveIds(disk'),
                  wasNot |-> s.wasNot \cup (Ids \ ActiveIds(disk')),
                  changed |-> s.changed \/ disk' # disk]
<1>1. seen' = [l \in Loaders |-> S(l)]
  BY Zenon DEF Watch
<1>2. ASSUME NEW l \in Loaders PROVE S(l) \in Sight
  <2> DEFINE t == [NothingSeen EXCEPT !.expected = AnswerOf(disk, load'[l].id)]
  <2>1. AnswerOf(disk, load'[l].id) \in Answers
    BY DEF AnswerOf, Answers
  <2>2. t \in Sight
    BY <2>1 DEF NothingSeen, Sight, Answers
  <2>3. seen[l] \in Sight
    OBVIOUS
  <2> HIDE DEF t
  <2> DEFINE s == IF load[l].at = "idle" THEN t ELSE seen[l]
  <2>4. s \in Sight
    BY <2>2, <2>3
  <2> HIDE DEF s
  <2>5. [expected |-> s.expected,
         was |-> s.was \cup ActiveIds(disk'),
         wasNot |-> s.wasNot \cup (Ids \ ActiveIds(disk')),
         changed |-> s.changed \/ disk' # disk] \in Sight
    <3>1. s.expected \in Answers /\ s.was \in SUBSET Ids /\ s.wasNot \in SUBSET Ids
          /\ s.changed \in BOOLEAN
      BY <2>4 DEF Sight
    <3> DEFINE c == (s.changed \/ disk' # disk)
    <3>2. c \in BOOLEAN
      OBVIOUS
    <3> HIDE DEF c
    <3>3. [expected |-> s.expected, was |-> s.was \cup ActiveIds(disk'),
           wasNot |-> s.wasNot \cup (Ids \ ActiveIds(disk')), changed |-> c] \in Sight
      BY <3>1, <3>2 DEF Sight
    <3>. QED
      BY <3>3 DEF c
  <2>. QED
    BY <2>3, <2>5 DEF s, t
<1>. HIDE DEF S
<1>. QED
  BY <1>1, <1>2

-----------------------------------------------------------------------------
(***************************************************************************)
(* One operation: what its steps do to a record and to the files.          *)
(***************************************************************************)

LEMMA FilesFacts ==
    /\ NoFile \notin Files /\ NoFile \notin Manifest /\ Torn \notin Manifest
    /\ NoFile # Torn
    /\ \A i \in Ids : ManifestFile(FileFor[i]) \in Files \ TempFiles
    /\ \A n \in 1..MaxOps : /\ TempFile(n) \in Files /\ TempFile(n) \in TempFiles
                           /\ TempFile(n)[2] = TempName[n] /\ TempName[n] \in TempNames
    /\ \A f \in Files : /\ ArchiveFile(f[2]) \in Files /\ ManifestFile(f[2]) \in Files
                        /\ ArchiveFile(f[2]) \notin TempFiles
<1>1. \A i \in Ids : FileFor[i] \in Names
  BY CatalogAssumption
<1>2. \A n \in 1..MaxOps : TempName[n] \in Names
  BY CatalogAssumption
<1>3. \A f \in Files : f[2] \in Names
  BY CatalogAssumption
<1>4. \A i \in Ids : ManifestFile(FileFor[i]) \in Files \ TempFiles
  BY <1>1, CatalogAssumption DEF ManifestFile, TempFiles, TempFile, TempNames
<1>5. \A n \in 1..MaxOps : /\ TempFile(n) \in Files /\ TempFile(n) \in TempFiles
                           /\ TempFile(n)[2] = TempName[n] /\ TempName[n] \in TempNames
  BY <1>2, CatalogAssumption DEF TempFile, TempFiles, TempNames, ManifestFile
<1>6. \A f \in Files : /\ ArchiveFile(f[2]) \in Files /\ ManifestFile(f[2]) \in Files
  BY <1>3, CatalogAssumption
<1>7. \A f \in Files : ArchiveFile(f[2]) \notin TempFiles
  BY DEF ArchiveFile, TempFiles, TempFile, ManifestFile
<1>. QED
  BY <1>4, <1>5, <1>6, <1>7, CatalogAssumption

LEMMA ConvertedIsManifest ==
    ASSUME NEW m \in Manifest
    PROVE  /\ Converted(m) \in Manifest /\ ~Converted(m).extras
           /\ Converted(m).id = m.id /\ Converted(m).body = m.body
BY DEF Converted, Manifest, Forms

\* An operation begins with a well formed record and the counters in bounds.
LEMMA BeginTypes ==
    ASSUME TypeOK, NEW o \in Operators, NEW phase \in Phases, NEW from \in Places,
           NEW to \in Places, NEW content \in Manifest \cup {NoFile},
           WellFormed([at |-> phase, from |-> from, to |-> to, content |-> content]),
           Begin(o, phase, from, to, content)
    PROVE  TypeOK'
<1> DEFINE r == [at |-> phase, from |-> from, to |-> to, content |-> content]
<1>1. r \in Operation
  BY DEF Operation
<1>2. op' = [op EXCEPT ![o] = r] /\ op \in [Operators -> Operation]
  BY DEF Begin, TypeOK
<1>3. WellFormed(r)
  OBVIOUS
<1> HIDE DEF r
<1>4. op' \in [Operators -> Operation] /\ \A p \in Operators : WellFormed(op'[p])
  BY <1>1, <1>2, <1>3 DEF TypeOK
<1>5. overlapped' \in BOOLEAN /\ ops' \in 0..MaxOps
  BY CatalogAssumption DEF Begin, TypeOK
<1>. QED
  BY <1>4, <1>5 DEF TypeOK, Begin

\* Its later steps keep the record and put a legal set of files on disk.
LEMMA StepTypes ==
    ASSUME TypeOK, NEW o \in Operators, Active(o), NEW d \in Disk,
           NEW phase \in Phases, Step(o, d, phase), Watch,
           phase # "idle" => (phase = "save" => op[o].at = "save")
                             /\ (op[o].at = "save" => phase = "save")
                             /\ (op[o].at = "move" => phase = "move")
    PROVE  TypeOK'
<1>1. op[o] \in Operation /\ WellFormed(op[o])
  BY DEF TypeOK
<1> DEFINE r == IF phase = "idle" THEN Idle ELSE [op[o] EXCEPT !.at = phase]
<1>2. r \in Operation
  BY <1>1 DEF Operation, Idle, Phases, Places
<1>3. WellFormed(r)
  BY <1>1 DEF WellFormed, Idle, Active, Operation
<1>4. op' = [op EXCEPT ![o] = r] /\ op \in [Operators -> Operation] /\ disk' = d
  BY DEF Step, TypeOK
<1> HIDE DEF r
<1>5. op' \in [Operators -> Operation] /\ \A p \in Operators : WellFormed(op'[p])
  BY <1>2, <1>3, <1>4 DEF TypeOK
<1>6. seen' \in [Loaders -> Sight]
  <2>1. ActiveIds(disk') \subseteq Ids
    BY <1>4, ActiveAreIds
  <2>2. load' = load
    BY DEF Step
  <2>. QED
    BY <2>1, <2>2, SightTyped DEF TypeOK
<1>. QED
  BY <1>4, <1>5, <1>6 DEF TypeOK, Step

-----------------------------------------------------------------------------
(***************************************************************************)
(* TypeOK is inductive.                                                    *)
(***************************************************************************)

LEMMA InitTyped == Init => TypeOK
<1>. SUFFICES ASSUME Init PROVE TypeOK
  OBVIOUS
<1>1. disk \in Disk
  BY CatalogAssumption DEF Init, Disk
<1>2. Idle \in Operation /\ WellFormed(Idle)
  BY DEF Idle, Operation, Phases, Places, WellFormed
<1>3. NoLoad \in Load
  BY DEF NoLoad, Load, Places, Answers
<1>4. NothingSeen \in Sight
  BY DEF NothingSeen, Sight, Answers
<1>5. op \in [Operators -> Operation] /\ \A o \in Operators : WellFormed(op[o])
  <2>. HIDE DEF Idle
  <2>. QED
    BY <1>2 DEF Init
<1>6. load \in [Loaders -> Load] /\ seen \in [Loaders -> Sight]
  <2>. HIDE DEF NoLoad, NothingSeen
  <2>. QED
    BY <1>3, <1>4 DEF Init
<1>7. overlapped \in BOOLEAN /\ ops \in 0..MaxOps /\ loads \in 0..MaxLoads
  <2>1. overlapped = FALSE /\ ops = 0 /\ loads = 0
    BY DEF Init
  <2>2. 0 \in 0..MaxOps /\ 0 \in 0..MaxLoads
    BY CatalogAssumption
  <2>. QED
    BY <2>1, <2>2
<1>. QED
  BY <1>1, <1>5, <1>6, <1>7 DEF TypeOK

\* What the checks of an operation lead to: the record it begins with.
LEMMA BeginShape ==
    ASSUME TypeOK, NewNamesFree, NEW o \in Operators, BeginOp(o)
    PROVE  \E phase \in Phases, from \in Places, to \in Places,
              content \in Manifest \cup {NoFile} :
              LET r == [at |-> phase, from |-> from, to |-> to, content |-> content]
              IN  /\ WellFormed(r) /\ PathsFit(r, ops + 1)
                  /\ r.at # "idle" /\ (Making(r) => r.from = TempFile(ops + 1))
                  /\ IdsAreUnique(disk) => ChecksHold(disk, r)
                  /\ Begin(o, phase, from, to, content)
<1>1. CASE SaveManifest(o)
  <2>0. PICK text \in Texts, overwrite \in BOOLEAN :
             \E target \in (IF overwrite THEN SavePaths
                            ELSE {ManifestFile(FileFor[text.id])}) :
                 /\ SaveAllowed(text, target, overwrite)
                 /\ Begin(o, "save", NoFile, target, Converted(text))
    BY <1>1 DEF SaveManifest
  <2>1. PICK target \in (IF overwrite THEN SavePaths
                         ELSE {ManifestFile(FileFor[text.id])}) :
             /\ SaveAllowed(text, target, overwrite)
             /\ Begin(o, "save", NoFile, target, Converted(text))
    BY <2>0
  <2>2. text \in Manifest /\ text.id \in Ids
    BY CatalogAssumption DEF Manifest
  <2>3. target \in Files
    <3>1. SavePaths \subseteq Files
      BY CatalogAssumption
    <3>2. ManifestFile(FileFor[text.id]) \in Files
      BY <2>2, FilesFacts
    <3>. QED
      BY <3>1, <3>2, Zenon
  <2>4. Converted(text) \in Manifest /\ Converted(text).id = text.id
    BY <2>2, ConvertedIsManifest
  <2>5. IdIsFree(disk, Converted(text).id, target)
    BY <2>1, <2>4 DEF SaveAllowed, IdIsFree
  <2> DEFINE r == [at |-> "save", from |-> NoFile, to |-> target, content |-> Converted(text)]
  <2>6. target[2] \notin TempNames
    <3>1. \A f \in SavePaths : f[2] \notin TempNames
      BY CatalogAssumption
    <3>2. ManifestFile(FileFor[text.id])[2] \notin TempNames
      BY <2>2, CatalogAssumption DEF ManifestFile
    <3>. QED
      BY <3>1, <3>2, Zenon
  <2>7. WellFormed(r) /\ PathsFit(r, ops + 1) /\ ~Making(r) /\ ChecksHold(disk, r)
    BY <2>3, <2>4, <2>5, <2>6 DEF WellFormed, PathsFit, Making, ChecksHold
  <2>. QED
    BY <2>1, <2>3, <2>4, <2>7 DEF Phases, Places
<1>2. CASE DuplicateManifest(o)
  <2>1. PICK f \in Workable(disk), copy \in Ids :
             LET target == ManifestFile(FileFor[copy])
             IN  /\ copy \notin ListedIds(disk)
                 /\ disk[target] = NoFile
                 /\ Begin(o, "duplicate", f, target,
                          [Converted(disk[f]) EXCEPT !.id = copy])
    BY <1>2 DEF DuplicateManifest, CopyId
  <2> DEFINE target == ManifestFile(FileFor[copy])
             m == [Converted(disk[f]) EXCEPT !.id = copy]
  <2>2. f \in Files /\ f \in Listed(disk) /\ disk[f] \in Manifest
    BY DEF Workable, Listed
  <2>4. m \in Manifest /\ m.id = copy /\ m.body = disk[f].body /\ ~m.extras
    BY <2>2, ConvertedIsManifest DEF Manifest
  <2>5. target \in Files /\ disk[target] = NoFile
    BY <2>1, FilesFacts
  <2>5a. target[2] \notin TempNames
    BY CatalogAssumption DEF ManifestFile
  <2>6. IdIsFree(disk, m.id, target)
    BY <2>1, <2>4 DEF IdIsFree, ListedIds
  <2>7. f # target
    BY <2>2, <2>5, FilesFacts
  <2>8. Begin(o, "duplicate", f, target, m)
    BY <2>1
  <2>. HIDE DEF target, m
  <2> DEFINE r == [at |-> "duplicate", from |-> f, to |-> target, content |-> m]
  <2>9. WellFormed(r) /\ PathsFit(r, ops + 1) /\ ~Making(r) /\ ChecksHold(disk, r)
    BY <2>2, <2>4, <2>5, <2>5a, <2>6, <2>7
       DEF WellFormed, PathsFit, Making, ChecksHold
  <2>. QED
    BY <2>2, <2>4, <2>5, <2>8, <2>9 DEF Phases, Places
<1>3. CASE RenameManifest(o)
  <2>1. PICK f \in Workable(disk), newId \in Ids :
             LET target == ManifestFile(FileFor[newId])
             IN  /\ newId \notin ListedIds(disk)
                 /\ disk[target] = NoFile
                 /\ Begin(o, "rename", f, target,
                          [Converted(disk[f]) EXCEPT !.id = newId])
    BY <1>3 DEF RenameManifest
  <2> DEFINE target == ManifestFile(FileFor[newId])
             m == [Converted(disk[f]) EXCEPT !.id = newId]
  <2>2. f \in Files /\ f \in Listed(disk) /\ disk[f] \in Manifest
    BY DEF Workable, Listed
  <2>4. m \in Manifest /\ m.id = newId /\ m.body = disk[f].body /\ ~m.extras
    BY <2>2, ConvertedIsManifest DEF Manifest
  <2>5. target \in Files /\ disk[target] = NoFile
    BY <2>1, FilesFacts
  <2>5a. target[2] \notin TempNames
    BY CatalogAssumption DEF ManifestFile
  <2>6. IdIsFree(disk, m.id, target)
    BY <2>1, <2>4 DEF IdIsFree, ListedIds
  <2>7. f # target
    BY <2>2, <2>5, FilesFacts
  <2>8. Begin(o, "rename", f, target, m)
    BY <2>1
  <2>. HIDE DEF target, m
  <2> DEFINE r == [at |-> "rename", from |-> f, to |-> target, content |-> m]
  <2>9. WellFormed(r) /\ PathsFit(r, ops + 1) /\ ~Making(r) /\ ChecksHold(disk, r)
    BY <2>2, <2>4, <2>5, <2>5a, <2>6, <2>7
       DEF WellFormed, PathsFit, Making, ChecksHold
  <2>. QED
    BY <2>2, <2>4, <2>5, <2>8, <2>9 DEF Phases, Places
<1>4. CASE ArchiveManifest(o)
  <2>1. PICK f \in Workable(disk) :
             /\ disk[ArchiveFile(f[2])] = NoFile
             /\ Begin(o, "move", f, ArchiveFile(f[2]), NoFile)
    BY <1>4 DEF ArchiveManifest
  <2> DEFINE target == ArchiveFile(f[2])
             r == [at |-> "move", from |-> f, to |-> target, content |-> NoFile]
  <2>2. f \in Files /\ disk[f] \in Manifest /\ f[1] # "archive"
    BY DEF Workable, Listed
  <2>3. target \in Files /\ target[2] = f[2] /\ target[1] = "archive"
    BY <2>2, FilesFacts DEF ArchiveFile
  <2>. HIDE DEF target
  <2>4. WellFormed(r) /\ PathsFit(r, ops + 1) /\ ~Making(r) /\ ChecksHold(disk, r)
    BY <2>1, <2>2, <2>3 DEF WellFormed, PathsFit, Making, ChecksHold, target
  <2>. QED
    BY <2>1, <2>2, <2>3, <2>4 DEF Phases, Places, target
<1>5. CASE RestoreManifest(o)
  <2>1. PICK f \in Archived(disk) :
             /\ disk[f].id \notin ListedIds(disk)
             /\ disk[ManifestFile(f[2])] = NoFile
             /\ Begin(o, "move", f, ManifestFile(f[2]), NoFile)
    BY <1>5 DEF RestoreManifest, RestoreAllowed
  <2> DEFINE target == ManifestFile(f[2])
             r == [at |-> "move", from |-> f, to |-> target, content |-> NoFile]
  <2>2. f \in Files /\ disk[f] \in Manifest /\ f[1] = "archive"
    BY DEF Archived, Loadable
  <2>3. target \in Files /\ target[2] = f[2] /\ target[1] # "archive"
    BY <2>2, FilesFacts DEF ManifestFile
  <2>4. IdIsFree(disk, disk[f].id, target)
    BY <2>1 DEF IdIsFree, ListedIds
  <2>. HIDE DEF target
  <2>5. WellFormed(r) /\ PathsFit(r, ops + 1) /\ ~Making(r) /\ ChecksHold(disk, r)
    BY <2>1, <2>2, <2>3, <2>4 DEF WellFormed, PathsFit, Making, ChecksHold, target
  <2>. QED
    BY <2>1, <2>2, <2>3, <2>5 DEF Phases, Places, target
<1>6. CASE CreateFromTemplate(o)
  <2> DEFINE n == ops + 1
             temp == TempFile(n)
  <2>1. PICK m \in Templates :
             /\ m.id \notin ListedIds(disk) /\ ops < MaxOps
             /\ disk[ManifestFile(FileFor[m.id])] = NoFile
             /\ Begin(o, "openTemp", temp, ManifestFile(FileFor[m.id]), m)
    BY <1>6 DEF CreateFromTemplate
  <2> DEFINE target == ManifestFile(FileFor[m.id])
             r == [at |-> "openTemp", from |-> temp, to |-> target, content |-> m]
  <2>2. m \in Manifest /\ m.id \in Ids
    BY CatalogAssumption DEF Manifest
  <2>3. n \in 1..MaxOps /\ n > ops /\ n \in 1..n
    BY <2>1, CatalogAssumption DEF TypeOK
  <2> HIDE DEF n
  <2>4. /\ target \in Files \ TempFiles /\ temp \in Files /\ temp \in TempFiles
        /\ temp[2] = TempName[n]
    BY <2>2, <2>3, FilesFacts
  <2>5. target[2] \notin TempNames
    BY <2>2, CatalogAssumption DEF ManifestFile
  <2>6. \A f \in Files : f[2] = temp[2] => disk[f] = NoFile
    BY <2>3, <2>4 DEF NewNamesFree
  <2>7. IdIsFree(disk, m.id, temp)
    BY <2>1 DEF IdIsFree, ListedIds
  <2>8. disk[target] = NoFile /\ Begin(o, "openTemp", temp, target, m)
    BY <2>1
  <2>9. Making(r) /\ r.from = TempFile(n) /\ PathsFit(r, n)
    BY <2>3, <2>5 DEF Making, PathsFit
  <2> HIDE DEF target, temp
  <2>10. WellFormed(r) /\ ChecksHold(disk, r)
    BY <2>2, <2>4, <2>6, <2>7, <2>8 DEF WellFormed, ChecksHold
  <2>. QED
    BY <2>2, <2>4, <2>8, <2>9, <2>10 DEF Phases, Places, n
<1>. QED
  BY <1>1, <1>2, <1>3, <1>4, <1>5, <1>6 DEF BeginOp

LEMMA WriteFacts ==
    ASSUME NEW d \in Disk, NEW f \in Files, NEW v \in Manifest \cup {NoFile, Torn}
    PROVE  /\ [d EXCEPT ![f] = v] \in Disk
           /\ \A g \in Files : [d EXCEPT ![f] = v][g] = IF g = f THEN v ELSE d[g]
BY DEF Disk

\* A step of an operation under way, and what it keeps while it is alone.
LEMMA StepShape ==
    ASSUME TypeOK, NEW o \in Operators, OpStep(o)
    PROVE  \E d \in Disk, phase \in Phases :
              LET r == IF phase = "idle" THEN Idle ELSE [op[o] EXCEPT !.at = phase]
              IN  /\ Active(o) /\ Step(o, d, phase)
                  /\ phase # "idle" => /\ phase # "save" /\ op[o].at # "save"
                                       /\ phase # "move" /\ op[o].at # "move"
                  /\ /\ IdsAreUnique(disk) /\ OnlyTempsTorn(disk)
                     /\ ChecksHold(disk, op[o])
                     => /\ IdsAreUnique(d) /\ OnlyTempsTorn(d)
                        /\ ChecksHold(d, r)
<1> DEFINE r0 == op[o]
           Good == IdsAreUnique(disk) /\ OnlyTempsTorn(disk) /\ ChecksHold(disk, r0)
<1>1. r0 \in Operation /\ WellFormed(r0) /\ disk \in Disk
  BY DEF TypeOK
<1>2. \A d : ChecksHold(d, Idle)
  BY DEF ChecksHold, Idle
<1>3. NoFile \notin Manifest /\ Torn \notin Manifest /\ NoFile # Torn
  BY FilesFacts
<1>4. ASSUME NEW phase \in Phases, phase # "idle" PROVE
        LET r == [r0 EXCEPT !.at = phase]
        IN  r.at = phase /\ r.from = r0.from /\ r.to = r0.to /\ r.content = r0.content
  BY <1>1 DEF Operation
<1>5. CASE WriteManifest(o)
  <2> DEFINE d == [disk EXCEPT ![r0.to] = r0.content]
  <2>1. /\ r0.at \in {"save", "duplicate", "rename"}
        /\ Step(o, d, CASE r0.at = "save" -> "idle"
                        [] r0.at = "duplicate" -> "checkCopy"
                        [] r0.at = "rename" -> "checkRenamed")
    BY <1>5 DEF WriteManifest
  <2>2. r0.to \in Files /\ r0.content \in Manifest
    BY <1>1, <2>1 DEF WellFormed
  <2>3. d \in Disk /\ \A g \in Files : d[g] = IF g = r0.to THEN r0.content ELSE disk[g]
    BY <1>1, <2>2, WriteFacts
  <2>4. Good => IdsAreUnique(d)
    BY <1>1, <2>1, <2>2, WriteKeepsUnique DEF ChecksHold
  <2>5. Good => OnlyTempsTorn(d)
    BY <1>3, <2>2, <2>3 DEF OnlyTempsTorn
  <2> HIDE DEF d
  <2>6. CASE r0.at = "save"
    <3>1. Step(o, d, "idle")
      BY <2>1, <2>6
    <3>. QED
      BY <1>2, <2>3, <2>4, <2>5, <2>6, <3>1 DEF Active, Phases
  <2>7. CASE r0.at \in {"duplicate", "rename"}
    <3> DEFINE phase == IF r0.at = "duplicate" THEN "checkCopy" ELSE "checkRenamed"
               r == [r0 EXCEPT !.at = phase]
    <3>1. Step(o, d, phase)
      BY <2>1, <2>7
    <3>2. phase \in Phases /\ phase \in {"checkCopy", "checkRenamed"}
      BY DEF Phases
    <3> HIDE DEF phase
    <3>3. r.at = phase /\ r.from = r0.from /\ r.to = r0.to /\ r.content = r0.content
      BY <1>4, <3>2
    <3> HIDE DEF r
    <3>4. r0.from \in Files
      BY <1>1, <2>7 DEF WellFormed
    <3>5. Good => ChecksHold(d, r)
      BY <2>2, <2>3, <2>7, <3>2, <3>3, <3>4 DEF ChecksHold
    <3>. QED
      BY <2>3, <2>4, <2>5, <2>7, <3>1, <3>2, <3>5 DEF Active, r
  <2>. QED
    BY <2>1, <2>6, <2>7
<1>6. CASE CheckWritten(o)
  <2>1. r0.at \in {"checkCopy", "checkRenamed"}
    BY <1>6 DEF CheckWritten
  <2>2. PICK phase \in {"undo", "idle", "dropOld"} :
             Step(o, disk, phase) /\ (phase = "undo" => ~Loadable(disk[r0.to]))
    BY <1>6 DEF CheckWritten
  <2>3. CASE phase = "idle"
    BY <1>1, <1>2, <2>1, <2>2, <2>3 DEF Active, Phases
  <2>4. CASE phase # "idle"
    <3> DEFINE r == [r0 EXCEPT !.at = phase]
    <3>1. phase \in Phases
      BY DEF Phases
    <3>2. r.at = phase /\ r.from = r0.from /\ r.to = r0.to /\ r.content = r0.content
      BY <1>4, <2>4, <3>1
    <3> HIDE DEF r
    <3>3. Good => ChecksHold(disk, r)
      BY <2>1, <2>2, <2>4, <3>2 DEF ChecksHold
    <3>. QED
      BY <1>1, <2>1, <2>2, <2>4, <3>1, <3>3 DEF Active, r
  <2>. QED
    BY <2>3, <2>4
<1>7. ASSUME NEW f \in Files, Active(o), Step(o, [disk EXCEPT ![f] = NoFile], "idle")
      PROVE  \E d \in Disk :
                /\ Step(o, d, "idle")
                /\ Good => IdsAreUnique(d) /\ OnlyTempsTorn(d) /\ ChecksHold(d, Idle)
  <2> DEFINE d == [disk EXCEPT ![f] = NoFile]
  <2>1. d \in Disk /\ \A g \in Files : d[g] = IF g = f THEN NoFile ELSE disk[g]
    BY <1>1, WriteFacts
  <2>2. Good => IdsAreUnique(d)
    BY <1>1, RemoveKeepsUnique
  <2>3. Good => OnlyTempsTorn(d)
    BY <1>3, <2>1 DEF OnlyTempsTorn
  <2>. QED
    BY <1>2, <1>7, <2>1, <2>2, <2>3
<1>8. CASE UndoWrite(o) \/ DropOld(o) \/ (r0.at \in {"fillTemp", "publish"} /\ FileError(o))
  <2>1. PICK f \in Files : Active(o) /\ Step(o, [disk EXCEPT ![f] = NoFile], "idle")
    <3>1. CASE UndoWrite(o)
      BY <1>1, <3>1 DEF UndoWrite, WellFormed, Active
    <3>2. CASE DropOld(o)
      BY <1>1, <3>2 DEF DropOld, WellFormed, Active
    <3>3. CASE r0.at \in {"fillTemp", "publish"} /\ FileError(o)
      BY <1>1, <3>3 DEF FileError, WellFormed, Active
    <3>. QED
      BY <1>8, <3>1, <3>2, <3>3
  <2>2. PICK d \in Disk : /\ Step(o, d, "idle")
                          /\ Good => /\ IdsAreUnique(d) /\ OnlyTempsTorn(d)
                                     /\ ChecksHold(d, Idle)
    BY <1>7, <2>1
  <2>. QED
    BY <2>1, <2>2 DEF Phases
<1>9. CASE Crash(o) \/ (r0.at \notin {"fillTemp", "publish"} /\ FileError(o))
  <2>1. Active(o) /\ Step(o, disk, "idle")
    BY <1>9 DEF Crash, FileError, Active
  <2>. QED
    BY <1>1, <1>2, <2>1 DEF Phases
<1>10. CASE MoveFile(o)
  <2> DEFINE m == disk[r0.from]
             e == [disk EXCEPT ![r0.from] = NoFile]
             d == [e EXCEPT ![r0.to] = m]
  <2>1. r0.at = "move" /\ m # NoFile
        /\ Step(o, [disk EXCEPT ![r0.from] = NoFile, ![r0.to] = m], "idle")
    BY <1>10 DEF MoveFile
  <2>2. r0.from \in Files /\ r0.to \in Files
    BY <1>1, <2>1 DEF WellFormed
  <2>3. e \in Disk /\ \A g \in Files : e[g] = IF g = r0.from THEN NoFile ELSE disk[g]
    BY <1>1, <2>2, WriteFacts
  <2>3a. m \in Manifest \cup {NoFile, Torn}
    BY <1>1, <2>2 DEF Disk
  <2> HIDE DEF e
  <2>4. d \in Disk /\ \A g \in Files : d[g] = IF g = r0.to THEN m ELSE e[g]
    BY <2>2, <2>3, <2>3a, WriteFacts
  <2>5. Step(o, d, "idle")
    BY <2>1 DEF e
  <2>6. ASSUME Good PROVE IdsAreUnique(d) /\ OnlyTempsTorn(d)
    <3>1. m \in Manifest /\ (r0.from[1] = "archive" => IdIsFree(disk, m.id, r0.to))
      BY <2>1, <2>6 DEF ChecksHold
    <3>2. IdsAreUnique(e) /\ \A id, g : IdIsFree(disk, id, g) => IdIsFree(e, id, g)
      BY <1>1, <2>2, <2>6, RemoveKeepsUnique DEF e
    <3>3. IdIsFree(e, m.id, r0.to)
      <4>1. CASE r0.from[1] = "archive"
        BY <3>1, <3>2, <4>1
      <4>2. CASE r0.from[1] # "archive"
        <5>1. r0.from \in Listed(disk)
          <6>1. r0.from[1] \in Dirs
            BY <2>2, CatalogAssumption
          <6>. QED
            BY <2>2, <3>1, <4>2, <6>1 DEF Listed, Dirs
        <5>2. \A f \in Listed(e) : f \in Listed(disk) /\ f # r0.from /\ e[f] = disk[f]
          BY <1>3, <2>3 DEF Listed
        <5>. QED
          BY <2>6, <5>1, <5>2 DEF IdsAreUnique, IdIsFree
      <4>. QED
        BY <4>1, <4>2
    <3>4. IdsAreUnique(d)
      BY <2>2, <2>3, <3>1, <3>2, <3>3, WriteKeepsUnique
    <3>5. OnlyTempsTorn(d)
      BY <1>3, <2>3, <2>4, <2>6, <3>1 DEF OnlyTempsTorn
    <3>. QED
      BY <3>4, <3>5
  <2>. HIDE DEF d
  <2>. QED
    BY <1>2, <2>1, <2>4, <2>5, <2>6 DEF Active, Phases
<1>11. CASE OpenTemp(o)
  <2> DEFINE d == [disk EXCEPT ![r0.from] = Torn]
             r == [r0 EXCEPT !.at = "fillTemp"]
  <2>1. r0.at = "openTemp" /\ Step(o, d, "fillTemp")
    BY <1>11 DEF OpenTemp
  <2>2. r0.from \in Files /\ r0.to \in Files /\ r0.content \in Manifest
    BY <1>1, <2>1 DEF WellFormed
  <2>3. d \in Disk /\ \A g \in Files : d[g] = IF g = r0.from THEN Torn ELSE disk[g]
    BY <1>1, <2>2, WriteFacts
  <2>4. r.at = "fillTemp" /\ r.from = r0.from /\ r.to = r0.to /\ r.content = r0.content
    BY <1>4 DEF Phases
  <2>5. Good => IdsAreUnique(d) /\ \A id, g : IdIsFree(disk, id, g) => IdIsFree(d, id, g)
    BY <1>1, <2>2, RemoveKeepsUnique
  <2> HIDE DEF d, r
  <2>6. Good => OnlyTempsTorn(d)
    BY <2>1, <2>3 DEF OnlyTempsTorn, ChecksHold
  <2>7. Good => ChecksHold(d, r)
    BY <2>1, <2>2, <2>3, <2>4, <2>5 DEF ChecksHold
  <2>. QED
    BY <2>1, <2>3, <2>5, <2>6, <2>7 DEF Active, Phases, r
<1>12. CASE FillTemp(o)
  <2> DEFINE d == [disk EXCEPT ![r0.from] = r0.content]
             r == [r0 EXCEPT !.at = "publish"]
  <2>1. r0.at = "fillTemp" /\ Step(o, d, "publish")
    BY <1>12 DEF FillTemp
  <2>2. r0.from \in Files /\ r0.to \in Files /\ r0.content \in Manifest
    BY <1>1, <2>1 DEF WellFormed
  <2>3. d \in Disk /\ \A g \in Files : d[g] = IF g = r0.from THEN r0.content ELSE disk[g]
    BY <1>1, <2>2, WriteFacts
  <2>4. r.at = "publish" /\ r.from = r0.from /\ r.to = r0.to /\ r.content = r0.content
    BY <1>4 DEF Phases
  <2>5. Good => IdIsFree(disk, r0.content.id, r0.from)
    BY <2>1 DEF ChecksHold
  <2>6. Good => IdsAreUnique(d)
    BY <1>1, <2>2, <2>5, WriteKeepsUnique
  <2> HIDE DEF d, r
  <2>7. Good => OnlyTempsTorn(d)
    BY <1>3, <2>2, <2>3 DEF OnlyTempsTorn
  <2>8. Good => IdIsFree(d, r0.content.id, r0.from)
    BY <2>3, <2>5 DEF IdIsFree, Listed
  <2>9. Good => ChecksHold(d, r)
    BY <2>1, <2>2, <2>3, <2>4, <2>8 DEF ChecksHold
  <2>. QED
    BY <2>1, <2>3, <2>6, <2>7, <2>9 DEF Active, Phases, r
<1>13. CASE Publish(o)
  <2> DEFINE e == [disk EXCEPT ![r0.from] = NoFile]
             m == disk[r0.from]
             d == [e EXCEPT ![r0.to] = m]
  <2>1. r0.at = "publish" /\ Loadable(m)
        /\ Step(o, [disk EXCEPT ![r0.from] = NoFile, ![r0.to] = m], "idle")
    BY <1>13 DEF Publish
  <2>2. r0.from \in Files /\ r0.to \in Files /\ m \in Manifest
    BY <1>1, <2>1 DEF WellFormed, Loadable
  <2>3. e \in Disk /\ \A g \in Files : e[g] = IF g = r0.from THEN NoFile ELSE disk[g]
    BY <1>1, <2>2, WriteFacts
  <2>3a. Good => IdsAreUnique(e)
    BY <1>1, <2>2, RemoveKeepsUnique
  <2> HIDE DEF e
  <2>4. d \in Disk /\ \A g \in Files : d[g] = IF g = r0.to THEN m ELSE e[g]
    BY <2>2, <2>3, WriteFacts
  <2>5. Step(o, d, "idle")
    BY <2>1 DEF e
  <2>6. Good => IdIsFree(e, m.id, r0.to)
    BY <1>3, <2>1, <2>3 DEF ChecksHold, IdIsFree, Listed
  <2>7. Good => IdsAreUnique(d)
    BY <2>2, <2>3, <2>3a, <2>6, WriteKeepsUnique
  <2> HIDE DEF d
  <2>8. Good => OnlyTempsTorn(d)
    BY <1>3, <2>2, <2>3, <2>4 DEF OnlyTempsTorn
  <2>. QED
    BY <1>2, <2>1, <2>4, <2>5, <2>7, <2>8 DEF Active, Phases
<1>. QED
  BY <1>5, <1>6, <1>8, <1>9, <1>10, <1>11, <1>12, <1>13 DEF OpStep

\* No step but the beginning makes an operation a wizard's.
LEMMA StepMaking ==
    ASSUME TypeOK, NEW o \in Operators, OpStep(o), NEW p \in Operators, Making(op'[p])
    PROVE  Making(op[p]) /\ op'[p].from = op[p].from
<1>1. PICK d \in Disk, phase \in Phases : Active(o) /\ Step(o, d, phase)
  BY StepShape
<1>2. CASE p # o
  BY <1>1, <1>2 DEF Step, TypeOK
<1>3. CASE p = o
  <2>1. phase = op'[o].at /\ phase \in {"openTemp", "fillTemp", "publish"}
    BY <1>1, <1>3 DEF Making, Step, TypeOK, Operation, Idle
  <2>2. op'[o].from = op[o].from
    BY <1>1, <2>1 DEF Step, TypeOK, Operation
  <2>3. \/ CheckWritten(o) \/ OpenTemp(o) \/ FillTemp(o)
        \/ op'[o].at \in {"idle", "checkCopy", "checkRenamed"}
    BY DEF OpStep, WriteManifest, UndoWrite, DropOld, MoveFile, Publish, FileError,
           Crash, Step, Idle, TypeOK, Operation
  <2>4. ~CheckWritten(o)
    BY <2>1 DEF CheckWritten, Step, TypeOK, Operation, Idle
  <2>. QED
    BY <1>3, <2>1, <2>2, <2>3, <2>4 DEF OpenTemp, FillTemp, Making
<1>. QED
  BY <1>2, <1>3

\* A step of an operation keeps its paths, and those of the others.
LEMMA StepPaths ==
    ASSUME TypeOK, NEW o \in Operators, OpStep(o),
           \A p \in Operators : PathsFit(op[p], ops)
    PROVE  \A p \in Operators : PathsFit(op'[p], ops')
<1>1. PICK d \in Disk, phase \in Phases : Active(o) /\ Step(o, d, phase)
        /\ (phase # "idle" => phase # "move" /\ op[o].at # "move")
  BY StepShape
<1> DEFINE r == IF phase = "idle" THEN Idle ELSE [op[o] EXCEPT !.at = phase]
<1>2. op' = [op EXCEPT ![o] = r] /\ ops' = ops /\ op \in [Operators -> Operation]
  BY <1>1 DEF Step, TypeOK
<1>3. PathsFit(r, ops)
  <2>1. CASE phase = "idle"
    BY <2>1 DEF PathsFit, Making, Idle
  <2>2. CASE phase # "idle"
    <3>1. r.at = phase /\ r.from = op[o].from /\ r.to = op[o].to
      BY <2>2, <1>2 DEF Operation
    <3>2. op[o].at \notin {"idle", "move"} /\ phase # "move"
      BY <1>1, <2>2 DEF Active
    <3>3. Making(r) => Making(op[o])
      <4>1. op'[o] = r
        BY <1>2
      <4>. QED
        BY <4>1, StepMaking
    <3>. HIDE DEF r
    <3>. QED
      BY <2>2, <3>1, <3>2, <3>3 DEF PathsFit
  <2>. QED
    BY <2>1, <2>2
<1>. HIDE DEF r
<1>. QED
  BY <1>2, <1>3

\* Where a file may appear: under no temporary name, or where a file of that
\* name was, or where the wizard under way makes it.
LEMMA NewFile ==
    ASSUME TypeOK, NEW o \in Operators, OpStep(o), PathsFit(op[o], ops),
           NEW f \in Files, disk[f] = NoFile, disk'[f] # NoFile
    PROVE  \/ f[2] \notin TempNames
           \/ \E g \in Files : g[2] = f[2] /\ disk[g] # NoFile
           \/ Making(op[o]) /\ f = op[o].from
<1> DEFINE r == op[o]
<1>1. r \in Operation /\ WellFormed(r) /\ disk \in Disk
  BY DEF TypeOK
<1>2. CASE WriteManifest(o)
  <2>1. f = r.to /\ r.at \notin {"idle", "move"}
    BY <1>1, <1>2 DEF WriteManifest, Step, Disk
  <2>. QED
    BY <2>1 DEF PathsFit
<1>3. CASE MoveFile(o)
  <2>1. r.at = "move" /\ disk[r.from] # NoFile /\ r.from \in Files
    BY <1>1, <1>3 DEF MoveFile, WellFormed
  <2>2. f = r.to \/ f = r.from
    BY <1>1, <1>3 DEF MoveFile, Step, Disk
  <2>. QED
    BY <2>1, <2>2 DEF PathsFit
<1>4. CASE OpenTemp(o) \/ FillTemp(o)
  BY <1>1, <1>4 DEF OpenTemp, FillTemp, Making, Step, Disk
<1>5. CASE Publish(o)
  <2>1. r.at = "publish" /\ (f = r.to \/ f = r.from)
    BY <1>1, <1>5 DEF Publish, Step, Disk
  <2>. QED
    BY <2>1 DEF PathsFit, Making
<1>6. CASE CheckWritten(o) \/ UndoWrite(o) \/ DropOld(o) \/ FileError(o) \/ Crash(o)
  BY <1>1, <1>6 DEF CheckWritten, UndoWrite, DropOld, FileError, Crash, Step, Disk
<1>. QED
  BY <1>2, <1>3, <1>4, <1>5, <1>6 DEF OpStep

\* So a temporary name that has not been drawn stays free.
LEMMA NewNamesStayFree ==
    ASSUME TypeOK, NewNamesFree, NEW o \in Operators, OpStep(o), PathsFit(op[o], ops)
    PROVE  NewNamesFree'
<1>1. ops' = ops
  <2>1. PICK d \in Disk, phase \in Phases : Step(o, d, phase)
    BY StepShape
  <2>. QED
    BY <2>1 DEF Step
<1>. SUFFICES ASSUME NEW n \in 1..MaxOps, NEW f \in Files, n > ops, f[2] = TempName[n],
                     disk'[f] # NoFile
              PROVE  FALSE
  BY <1>1 DEF NewNamesFree
<1>2. \A g \in Files : g[2] = TempName[n] => disk[g] = NoFile
  BY DEF NewNamesFree
<1>3. f[2] \in TempNames
  BY FilesFacts
<1>4. Making(op[o]) /\ f = op[o].from
  BY <1>2, <1>3, NewFile
<1>5. PICK m \in 1..ops : f = TempFile(m)
  BY <1>4 DEF PathsFit
<1>6. m \in 1..MaxOps /\ m # n
  BY CatalogAssumption DEF TypeOK
<1>7. f[2] = TempName[m]
  BY <1>5, <1>6, FilesFacts
<1>. QED
  BY <1>6, <1>7, CatalogAssumption

-----------------------------------------------------------------------------
(***************************************************************************)
(* A load: it changes no file and no operation, and keeps its types.       *)
(***************************************************************************)

LEMMA AnswerTyped ==
    ASSUME TypeOK, NEW l \in Loaders, NEW answer \in Answers, Answer(l, answer)
    PROVE  load' \in [Loaders -> Load]
<1> DEFINE r == [NoLoad EXCEPT !.id = load[l].id, !.answer = answer]
<1>1. load[l].id \in Ids \cup {NoFile}
  BY DEF TypeOK, Load
<1>2. r \in Load
  BY <1>1 DEF NoLoad, Load, Places
<1>3. load' = [load EXCEPT ![l] = r] /\ load \in [Loaders -> Load]
  BY DEF Answer, TypeOK
<1> HIDE DEF r
<1>. QED
  BY <1>2, <1>3

LEMMA LoadKeepsTypes ==
    ASSUME TypeOK, NEW l \in Loaders, LoadStep(l), Watch
    PROVE  TypeOK' /\ UNCHANGED <<disk, op, overlapped>>
<1>0. load[l] \in Load /\ disk \in Disk
  BY DEF TypeOK
<1>1. /\ load' \in [Loaders -> Load] /\ loads' \in 0..MaxLoads
      /\ UNCHANGED <<disk, op, overlapped, ops>>
  <2>1. ASSUME NEW id \in Ids, StartLoad(l, id)
        PROVE  /\ load' \in [Loaders -> Load] /\ loads' \in 0..MaxLoads
               /\ UNCHANGED <<disk, op, overlapped, ops>>
    <3> DEFINE r == [at |-> "reading", id |-> id, left |-> RuntimeFiles(disk),
                     found |-> NoLoad.found, answer |-> "none"]
    <3>1. NoLoad.found \in [Ids -> Places]
      BY DEF NoLoad, Places
    <3>2. RuntimeFiles(disk) \in SUBSET Files
      BY DEF RuntimeFiles
    <3>3. r \in Load
      BY <3>1, <3>2 DEF Load, Answers
    <3>4. load' = [load EXCEPT ![l] = r] /\ load \in [Loaders -> Load]
      BY <2>1 DEF StartLoad, TypeOK
    <3> HIDE DEF r
    <3>5. load' \in [Loaders -> Load]
      BY <3>3, <3>4
    <3>6. loads' \in 0..MaxLoads
      BY <2>1, CatalogAssumption DEF StartLoad, TypeOK
    <3>. QED
      BY <2>1, <3>5, <3>6 DEF StartLoad
  <2>2. CASE ReadNext(l)
    <3>1. PICK f \in load[l].left :
             IF \/ disk[f] \in {NoFile, Torn}
                \/ load[l].found[disk[f].id] # NoFile
             THEN Answer(l, "failed")
             ELSE /\ load' = [load EXCEPT ![l].left = @ \ {f},
                                          ![l].found[disk[f].id] = f]
                  /\ UNCHANGED <<disk, op, overlapped, ops, loads>>
      BY <2>2 DEF ReadNext
    <3>2. CASE Answer(l, "failed")
      <4>1. load' \in [Loaders -> Load]
        BY <3>2, AnswerTyped DEF Answers
      <4>. QED
        BY <3>2, <4>1 DEF Answer, TypeOK
    <3>3. CASE /\ disk[f] \notin {NoFile, Torn}
               /\ load' = [load EXCEPT ![l].left = @ \ {f},
                                       ![l].found[disk[f].id] = f]
               /\ UNCHANGED <<disk, op, overlapped, ops, loads>>
      <4>1. f \in Files /\ f \in Places
        BY <1>0 DEF Load, Places
      <4>2. disk[f].id \in Ids
        <5>1. disk[f] \in Manifest
          BY <1>0, <3>3, <4>1 DEF Disk
        <5>. QED
          BY <5>1 DEF Manifest
      <4> DEFINE found == [load[l].found EXCEPT ![disk[f].id] = f]
                 r == [load[l] EXCEPT !.left = @ \ {f}, !.found = found]
      <4>3. found \in [Ids -> Places]
        BY <1>0, <4>1, <4>2 DEF Load
      <4>4. load' = [load EXCEPT ![l] = r]
        BY <1>0, <3>3 DEF Load, TypeOK
      <4> HIDE DEF found
      <4>5. r \in Load
        BY <1>0, <4>3 DEF Load
      <4> HIDE DEF r
      <4>6. load' \in [Loaders -> Load]
        BY <4>4, <4>5 DEF TypeOK
      <4>. QED
        BY <3>3, <4>6 DEF TypeOK
    <3>. QED
      BY <3>1, <3>2, <3>3
  <2>3. CASE OpenFound(l)
    <3>1. PICK answer \in Answers : Answer(l, answer)
      <4>1. \/ Answer(l, "missing") \/ Answer(l, "loaded") \/ Answer(l, "failed")
        BY <2>3 DEF OpenFound
      <4>. QED
        BY <4>1 DEF Answers
    <3>2. load' \in [Loaders -> Load]
      BY <3>1, AnswerTyped
    <3>. QED
      BY <3>1, <3>2 DEF Answer, TypeOK
  <2>. QED
    BY <2>1, <2>2, <2>3 DEF LoadStep
<1>2. seen' \in [Loaders -> Sight]
  <2>1. ActiveIds(disk') \subseteq Ids
    BY <1>0, <1>1, ActiveAreIds
  <2>. QED
    BY <2>1, SightTyped DEF TypeOK
<1>. QED
  BY <1>1, <1>2 DEF TypeOK

-----------------------------------------------------------------------------
(***************************************************************************)
(* The invariant.                                                          *)
(***************************************************************************)

LEMMA InvariantInit == Init => IndInv
<1>. SUFFICES ASSUME Init PROVE IndInv
  OBVIOUS
<1>1. TypeOK
  BY InitTyped
<1>2. OneAtATime
  BY DEF Init, OneAtATime, Active, Idle
<1>3. IdsAreUnique(disk) /\ OnlyTempsTorn(disk)
  BY CatalogAssumption DEF Init, IdsAreUnique, OnlyTempsTorn
<1>4. \A o \in Operators : ChecksHold(disk, op[o]) /\ PathsFit(op[o], ops)
  BY DEF Init, ChecksHold, PathsFit, Making, Idle
<1>5. NewNamesFree
  BY FilesFacts, CatalogAssumption DEF Init, NewNamesFree
<1>. QED
  BY <1>1, <1>2, <1>3, <1>4, <1>5 DEF IndInv

LEMMA BeginKeepsInvariant ==
    ASSUME IndInv, NEW o \in Operators, BeginOp(o)
    PROVE  IndInv'
<1>0. TypeOK /\ NewNamesFree
  BY DEF IndInv
<1>1. PICK phase \in Phases, from \in Places, to \in Places,
           content \in Manifest \cup {NoFile} :
           LET r == [at |-> phase, from |-> from, to |-> to, content |-> content]
           IN  /\ WellFormed(r) /\ PathsFit(r, ops + 1)
               /\ r.at # "idle" /\ (Making(r) => r.from = TempFile(ops + 1))
               /\ IdsAreUnique(disk) => ChecksHold(disk, r)
               /\ Begin(o, phase, from, to, content)
  BY <1>0, BeginShape
<1> DEFINE r == [at |-> phase, from |-> from, to |-> to, content |-> content]
<1>2. /\ WellFormed(r) /\ PathsFit(r, ops + 1)
      /\ IdsAreUnique(disk) => ChecksHold(disk, r)
      /\ Begin(o, phase, from, to, content)
  BY <1>1
<1>3. TypeOK'
  BY <1>0, <1>2, BeginTypes
<1>4. /\ op' = [op EXCEPT ![o] = r] /\ disk' = disk
      /\ overlapped' = (overlapped \/ \E p \in Operators : Active(p))
      /\ op \in [Operators -> Operation] /\ ops' = ops + 1 /\ ops \in Nat
  BY <1>0, <1>2 DEF Begin, Active, TypeOK
<1> HIDE DEF r
<1>5. ASSUME ~overlapped'
      PROVE  /\ OneAtATime' /\ IdsAreUnique(disk)' /\ OnlyTempsTorn(disk)'
             /\ \A p \in Operators : ChecksHold(disk', op'[p])
  <2>1. ~overlapped /\ \A p \in Operators : ~Active(p)
    BY <1>4, <1>5
  <2>2. /\ IdsAreUnique(disk) /\ OnlyTempsTorn(disk)
        /\ \A p \in Operators : ChecksHold(disk, op[p])
    BY <2>1 DEF IndInv
  <2>3. \A p \in Operators : op'[p] = IF p = o THEN r ELSE op[p]
    BY <1>4
  <2>4. OneAtATime'
    BY <2>1, <2>3 DEF OneAtATime, Active
  <2>5. \A p \in Operators : ChecksHold(disk', op'[p])
    BY <1>2, <1>4, <2>2, <2>3
  <2>. QED
    BY <1>4, <2>2, <2>4, <2>5
<1>6. (\A p \in Operators : PathsFit(op[p], ops))'
  <2>1. \A p \in Operators : PathsFit(op[p], ops + 1)
    <3>1. 1..ops \subseteq 1..(ops + 1)
      BY <1>4
    <3>. QED
      BY <3>1 DEF IndInv, PathsFit
  <2>. QED
    BY <1>2, <1>4, <2>1
<1>7. NewNamesFree'
  BY <1>0, <1>4 DEF NewNamesFree
<1>. QED
  BY <1>3, <1>5, <1>6, <1>7 DEF IndInv

LEMMA StepKeepsInvariant ==
    ASSUME IndInv, NEW o \in Operators, OpStep(o), Watch
    PROVE  IndInv'
<1>0. TypeOK
  BY DEF IndInv
<1> DEFINE R(p) == IF p = "idle" THEN Idle ELSE [op[o] EXCEPT !.at = p]
<1>1. PICK d \in Disk, phase \in Phases :
           /\ Active(o) /\ Step(o, d, phase)
           /\ phase # "idle" => /\ phase # "save" /\ op[o].at # "save"
                                /\ phase # "move" /\ op[o].at # "move"
           /\ /\ IdsAreUnique(disk) /\ OnlyTempsTorn(disk)
              /\ ChecksHold(disk, op[o])
              => /\ IdsAreUnique(d) /\ OnlyTempsTorn(d)
                 /\ ChecksHold(d, R(phase))
  BY <1>0, StepShape
<1>2. TypeOK'
  BY <1>0, <1>1, StepTypes
<1> DEFINE r == R(phase)
<1>3. /\ op' = [op EXCEPT ![o] = r] /\ disk' = d /\ overlapped' = overlapped
      /\ op \in [Operators -> Operation]
  BY <1>0, <1>1 DEF Step, TypeOK
<1>4. ASSUME ~overlapped
      PROVE  /\ OneAtATime' /\ IdsAreUnique(d) /\ OnlyTempsTorn(d)
             /\ \A p \in Operators : ChecksHold(d, op'[p])
  <2>1. /\ OneAtATime /\ IdsAreUnique(disk) /\ OnlyTempsTorn(disk)
        /\ \A p \in Operators : ChecksHold(disk, op[p])
    BY <1>4 DEF IndInv
  <2>2. IdsAreUnique(d) /\ OnlyTempsTorn(d) /\ ChecksHold(d, r)
    BY <1>1, <2>1
  <2> HIDE DEF r
  <2>3. \A p \in Operators : op'[p] = IF p = o THEN r ELSE op[p]
    BY <1>3
  <2>4. \A p \in Operators : p # o => ~Active(p)
    BY <1>1, <2>1 DEF OneAtATime
  <2>5. OneAtATime'
    BY <2>3, <2>4 DEF OneAtATime, Active
  <2>6. \A p \in Operators : p # o => ChecksHold(d, op[p])
    BY <2>4 DEF ChecksHold, Active
  <2>. QED
    BY <2>2, <2>3, <2>5, <2>6
<1>5. (\A p \in Operators : PathsFit(op[p], ops))' /\ NewNamesFree'
  BY <1>0, StepPaths, NewNamesStayFree DEF IndInv
<1>. QED
  BY <1>2, <1>3, <1>4, <1>5 DEF IndInv

LEMMA InvariantStep == IndInv /\ [Next]_vars => IndInv'
<1>. SUFFICES ASSUME IndInv, [Next]_vars PROVE IndInv'
  OBVIOUS
<1>1. ASSUME NEW o \in Operators, BeginOp(o) PROVE IndInv'
  BY <1>1, BeginKeepsInvariant
<1>2. ASSUME NEW o \in Operators, OpStep(o), Watch PROVE IndInv'
  BY <1>2, StepKeepsInvariant
<1>3. ASSUME NEW l \in Loaders, LoadStep(l), Watch PROVE IndInv'
  <2>1. TypeOK' /\ UNCHANGED <<disk, op, overlapped>>
    BY <1>3, LoadKeepsTypes DEF IndInv
  <2>2. ops' = ops
    BY <1>3 DEF LoadStep, StartLoad, ReadNext, OpenFound, Answer
  <2>. QED
    BY <2>1, <2>2 DEF IndInv, OneAtATime, Active, NewNamesFree
<1>4. CASE UNCHANGED vars
  BY <1>4 DEF vars, IndInv, TypeOK, OneAtATime, Active, NewNamesFree
<1>. QED
  BY <1>1, <1>2, <1>3, <1>4 DEF Next

\* For any number of windows, loads, manifests and files: until two workbench
\* operations overlap, every id stands in one file, half a file is only ever a
\* wizard's temporary one, and an operation under way still has what its checks
\* saw (manifest_workbench.py and manifest_template_generator.py look first
\* and write later), whatever has crashed or failed before.
THEOREM InvariantCorrect == Spec => []IndInv
<1>. QED
  BY InvariantInit, InvariantStep, PTL DEF Spec

\* The catalog the runtime reads all or nothing (load_manifest_catalog) can
\* then be read, except while a wizard's temporary file is half written.
THEOREM CatalogReadableCorrect == Spec => []CatalogReadable
<1>1. IndInv => CatalogReadable
  <2>. SUFFICES ASSUME IndInv, ~overlapped, \A f \in TempFiles : disk[f] # Torn
                PROVE  Readable(disk)
    BY DEF CatalogReadable
  <2>1. disk \in Disk /\ IdsAreUnique(disk) /\ OnlyTempsTorn(disk)
    BY DEF IndInv, TypeOK
  <2>2. \A f \in Files : disk[f] # Torn
    BY <2>1 DEF OnlyTempsTorn
  <2>3. RuntimeFiles(disk) \subseteq Listed(disk)
    BY <2>1, <2>2 DEF RuntimeFiles, RuntimePath, Listed, Disk
  <2>. QED
    BY <2>1, <2>2, <2>3 DEF Readable, IdsAreUnique, RuntimeFiles
<1>. QED
  BY <1>1, InvariantCorrect, PTL

-----------------------------------------------------------------------------
(***************************************************************************)
(* What an operation that is alone keeps of what the files say.            *)
(***************************************************************************)

LEMMA StepLosesNothing ==
    ASSUME IndInv, ~overlapped, NEW o \in Operators, OpStep(o), NEW body,
           NEW whole \in BOOLEAN,
           OnDisk(body, whole), ~MayLose(o, whole), disk' # disk
    PROVE  OnDisk(body, whole)'
<1> DEFINE r == op[o]
<1>0. /\ TypeOK /\ OneAtATime /\ ChecksHold(disk, r) /\ WellFormed(r) /\ r \in Operation
      /\ disk \in Disk
  BY DEF IndInv, TypeOK
<1>01. r.at # "save" /\ (r.at = "dropOld" => ~whole)
  BY DEF MayLose
<1>1. PICK f \in Files \ Unpublished :
           disk[f] \in Manifest /\ disk[f].body = body /\ (whole => disk[f].extras)
  BY DEF OnDisk
<1>2. NoFile \notin Manifest /\ Torn \notin Manifest
  BY FilesFacts
<1>3. ASSUME NEW d, NEW phase, Active(o), Step(o, d, phase),
             phase \notin {"fillTemp", "publish"}
      PROVE  Unpublished' = {}
  <2>1. \A p \in Operators : p # o => op[p].at = "idle"
    BY <1>0, <1>3 DEF OneAtATime, Active
  <2>2. op' = [op EXCEPT ![o] = IF phase = "idle" THEN Idle ELSE [op[o] EXCEPT !.at = phase]]
    BY <1>3 DEF Step
  <2>3. op'[o].at = phase
    BY <1>0, <2>2 DEF TypeOK, Operation, Idle
  <2>4. \A p \in Operators : p # o => op'[p].at = "idle"
    BY <1>0, <2>1, <2>2 DEF TypeOK
  <2>. QED
    BY <1>3, <2>3, <2>4 DEF Unpublished
<1>4. ASSUME NEW d, NEW phase, Active(o), Step(o, d, phase), phase # "idle"
      PROVE  Unpublished' \subseteq {r.from}
  <2>1. \A p \in Operators : p # o => op[p].at = "idle"
    BY <1>0, <1>4 DEF OneAtATime, Active
  <2>2. op' = [op EXCEPT ![o] = [op[o] EXCEPT !.at = phase]]
    BY <1>4 DEF Step
  <2>3. op'[o].from = r.from
    BY <1>0, <2>2 DEF TypeOK, Operation
  <2>4. \A p \in Operators : p # o => op'[p].at = "idle"
    BY <1>0, <2>1, <2>2 DEF TypeOK
  <2>. QED
    BY <2>3, <2>4 DEF Unpublished
<1>5. r.at \in {"fillTemp", "publish"} => r.from \in Unpublished
  BY DEF Unpublished
<1>6. CASE WriteManifest(o)
  <2>1. r.at \in {"duplicate", "rename"} /\ disk[r.to] = NoFile
    BY <1>0, <1>01, <1>6 DEF WriteManifest, ChecksHold
  <2> DEFINE d == [disk EXCEPT ![r.to] = r.content]
  <2>2. PICK phase \in {"checkCopy", "checkRenamed"} : Step(o, d, phase)
    BY <1>6, <2>1 DEF WriteManifest
  <2>3. Unpublished' = {}
    BY <1>3, <2>1, <2>2 DEF Active
  <2>4. disk' = d /\ disk'[f] = disk[f]
    BY <1>0, <1>1, <1>2, <2>1, <2>2 DEF Step, Disk
  <2>. QED
    BY <1>1, <2>3, <2>4 DEF OnDisk
<1>7. CASE CheckWritten(o)
  BY <1>7 DEF CheckWritten, Step
<1>8. CASE UndoWrite(o) \/ DropOld(o)
  <2>1. /\ r.at \in {"undo", "dropOld"} /\ r.from # r.to /\ r.from \in Files /\ r.to \in Files
        /\ disk[r.from] \in Manifest /\ disk[r.from].body = r.content.body
        /\ disk[r.to] = r.content /\ r.content \in Manifest /\ ~r.content.extras
    BY <1>0, <1>8 DEF UndoWrite, DropOld, ChecksHold, WellFormed
  <2>2. PICK g \in {r.from, r.to} :
             /\ Step(o, [disk EXCEPT ![g] = NoFile], "idle")
             /\ g = r.to \/ ~whole
    BY <1>01, <1>8 DEF UndoWrite, DropOld
  <2>3. Unpublished' = {}
    BY <1>3, <2>1, <2>2 DEF Active
  <2>4. disk' = [disk EXCEPT ![g] = NoFile]
    BY <2>2 DEF Step
  <2>5. CASE f # g
    BY <1>0, <1>1, <2>3, <2>4, <2>5 DEF OnDisk, Disk
  <2>6. CASE f = g
    <3>1. PICK h \in {r.from, r.to} : h # g
      BY <2>1
    <3>2. h \in Files /\ disk[h] \in Manifest /\ disk[h].body = body /\ ~whole
      BY <1>1, <2>1, <2>2, <2>6, <3>1
    <3>. QED
      BY <1>0, <2>3, <2>4, <3>1, <3>2 DEF OnDisk, Disk
  <2>. QED
    BY <2>5, <2>6
<1>9. CASE MoveFile(o)
  <2>1. r.at = "move" /\ disk[r.to] = NoFile /\ r.from \in Files /\ r.to \in Files
    BY <1>0, <1>9 DEF MoveFile, ChecksHold, WellFormed
  <2>2. Step(o, [disk EXCEPT ![r.from] = NoFile, ![r.to] = disk[r.from]], "idle")
    BY <1>9 DEF MoveFile
  <2>3. Unpublished' = {}
    BY <1>3, <2>1, <2>2 DEF Active
  <2>4. disk' = [disk EXCEPT ![r.from] = NoFile, ![r.to] = disk[r.from]]
    BY <2>2 DEF Step
  <2>5. disk'[r.to] = disk[r.from] /\ (f # r.from => disk'[f] = disk[f])
    BY <1>0, <1>1, <1>2, <2>1, <2>4 DEF Disk
  <2>. QED
    BY <1>1, <2>1, <2>3, <2>5 DEF OnDisk
<1>10. CASE OpenTemp(o) \/ FillTemp(o)
  <2>1. r.at \in {"openTemp", "fillTemp"} /\ disk[r.from] \in {NoFile, Torn}
    BY <1>0, <1>10 DEF OpenTemp, FillTemp, ChecksHold
  <2>2. PICK phase \in {"fillTemp", "publish"}, v \in {Torn, r.content} :
             Step(o, [disk EXCEPT ![r.from] = v], phase)
    BY <1>10 DEF OpenTemp, FillTemp
  <2>3. Unpublished' \subseteq {r.from}
    BY <1>4, <2>1, <2>2 DEF Active
  <2>4. f # r.from /\ disk' = [disk EXCEPT ![r.from] = v]
    BY <1>1, <1>2, <2>1, <2>2 DEF Step
  <2>. QED
    BY <1>0, <1>1, <2>3, <2>4 DEF OnDisk, Disk
<1>11. CASE Publish(o)
  <2>1. r.at = "publish" /\ disk[r.to] = NoFile
    BY <1>0, <1>11 DEF Publish, ChecksHold
  <2>2. Step(o, [disk EXCEPT ![r.from] = NoFile, ![r.to] = disk[r.from]], "idle")
    BY <1>11 DEF Publish
  <2>3. Unpublished' = {}
    BY <1>3, <2>1, <2>2 DEF Active
  <2>4. f # r.from /\ f # r.to
    BY <1>1, <1>2, <1>5, <2>1
  <2>5. disk' = [disk EXCEPT ![r.from] = NoFile, ![r.to] = disk[r.from]]
    BY <2>2 DEF Step
  <2>. QED
    BY <1>0, <1>1, <2>3, <2>4, <2>5 DEF OnDisk, Disk
<1>12. CASE FileError(o) \/ Crash(o)
  <2>1. /\ r.at \in {"fillTemp", "publish"}
        /\ Step(o, [disk EXCEPT ![r.from] = NoFile], "idle")
    BY <1>12 DEF FileError, Crash, Step
  <2>2. Unpublished' = {}
    BY <1>3, <2>1 DEF Active
  <2>3. f # r.from /\ disk' = [disk EXCEPT ![r.from] = NoFile]
    BY <1>1, <1>5, <2>1 DEF Step
  <2>. QED
    BY <1>0, <1>1, <2>2, <2>3 DEF OnDisk, Disk
<1>. QED
  BY <1>6, <1>7, <1>8, <1>9, <1>10, <1>11, <1>12 DEF OpStep

\* Until two operations overlap, what the runtime reads of a manifest leaves the
\* disk only when a save replaces it, and the fields beside it only by a save or
\* by the unlink that ends rename_manifest: duplicate_manifest, archive_manifest
\* and restore_archived_manifest may stop after any of their steps.
THEOREM NothingLostCorrect == Spec => NothingLost
<1>1. IndInv /\ [Next]_vars =>
        [disk' = disk \/ \A body \in Bodies, whole \in BOOLEAN :
            OnDisk(body, whole) /\ ~OnDisk(body, whole)'
            => overlapped \/ \E o \in Operators : MayLose(o, whole)]_vars
  <2>. SUFFICES ASSUME IndInv, Next, disk' # disk, ~overlapped, NEW body \in Bodies,
                       NEW whole \in BOOLEAN,
                       OnDisk(body, whole), ~OnDisk(body, whole)',
                       \A o \in Operators : ~MayLose(o, whole)
                PROVE  FALSE
    OBVIOUS
  <2>1. ASSUME NEW o \in Operators, BeginOp(o) PROVE FALSE
    BY <2>1 DEF BeginOp, SaveManifest, DuplicateManifest, RenameManifest,
                ArchiveManifest, RestoreManifest, CreateFromTemplate, Begin
  <2>2. ASSUME NEW o \in Operators, OpStep(o) PROVE FALSE
    BY <2>2, StepLosesNothing
  <2>3. ASSUME NEW l \in Loaders, LoadStep(l), Watch PROVE FALSE
    BY <2>3, LoadKeepsTypes DEF IndInv
  <2>. QED
    BY <2>1, <2>2, <2>3 DEF Next
<1>. QED
  BY <1>1, InvariantCorrect, PTL DEF Spec, NothingLost

-----------------------------------------------------------------------------
(***************************************************************************)
(* What an operation that is alone does to the files.                      *)
(***************************************************************************)

\* It changes one file f, or moves f to where no file is; and it takes a
\* manifest that loads only for a reason StopsBecause names.
Changes(o, f, g) ==
    /\ \A h \in Files \ {f, g} : disk'[h] = disk[h]
    /\ f # g => /\ op[o].at \in {"move", "publish"} /\ f = op[o].from /\ g = op[o].to
                /\ disk[f] \in Manifest /\ disk[g] = NoFile
                /\ disk'[f] = NoFile /\ disk'[g] = disk[f]
    /\ f = g /\ disk'[f] = Torn => op[o].at = "openTemp"
    /\ Loadable(disk[f]) => \/ op[o].at \in {"move", "dropOld", "publish"} /\ f = op[o].from
                            \/ op[o].at = "save" /\ f = op[o].to

LEMMA StepChanges ==
    ASSUME IndInv, ~overlapped, NEW o \in Operators, OpStep(o), disk' # disk
    PROVE  \E f, g \in Files : Changes(o, f, g)
<1> DEFINE r == op[o]
<1>0. /\ ChecksHold(disk, r) /\ WellFormed(r) /\ r \in Operation /\ disk \in Disk
  BY DEF IndInv, TypeOK
<1>1. NoFile \notin Manifest /\ Torn \notin Manifest /\ NoFile # Torn
  BY FilesFacts
<1>2. ASSUME NEW f \in Files, NEW v, disk' = [disk EXCEPT ![f] = v],
             v = Torn => r.at = "openTemp",
             Loadable(disk[f]) => \/ r.at \in {"move", "dropOld", "publish"} /\ f = r.from
                                  \/ r.at = "save" /\ f = r.to
      PROVE  Changes(o, f, f)
  BY <1>0, <1>2 DEF Changes, Disk
<1>3. ASSUME r.at \in {"move", "publish"}, r.from \in Files, r.to \in Files,
             disk[r.from] \in Manifest, disk[r.to] = NoFile,
             disk' = [disk EXCEPT ![r.from] = NoFile, ![r.to] = disk[r.from]]
      PROVE  Changes(o, r.from, r.to)
  BY <1>0, <1>1, <1>3 DEF Changes, Disk
<1>4. CASE WriteManifest(o)
  <2>1. /\ r.at \in {"save", "duplicate", "rename"} /\ r.to \in Files
        /\ r.content \in Manifest /\ disk' = [disk EXCEPT ![r.to] = r.content]
        /\ r.at # "save" => disk[r.to] = NoFile
    BY <1>0, <1>4 DEF WriteManifest, Step, WellFormed, ChecksHold
  <2>. QED
    BY <1>1, <1>2, <2>1 DEF Loadable
<1>5. CASE CheckWritten(o) \/ Crash(o)
  BY <1>5 DEF CheckWritten, Crash, Step
<1>6. CASE UndoWrite(o)
  <2>1. /\ r.to \in Files /\ disk' = [disk EXCEPT ![r.to] = NoFile]
        /\ ~Loadable(disk[r.to])
    BY <1>0, <1>6 DEF UndoWrite, Step, WellFormed, ChecksHold
  <2>. QED
    BY <1>1, <1>2, <2>1
<1>7. CASE DropOld(o)
  <2>1. r.at = "dropOld" /\ r.from \in Files /\ disk' = [disk EXCEPT ![r.from] = NoFile]
    BY <1>0, <1>7 DEF DropOld, Step, WellFormed
  <2>. QED
    BY <1>1, <1>2, <2>1
<1>8. CASE MoveFile(o)
  <2>1. /\ r.at = "move" /\ r.from \in Files /\ r.to \in Files
        /\ disk[r.from] \in Manifest /\ disk[r.to] = NoFile
    BY <1>0, <1>8 DEF MoveFile, WellFormed, ChecksHold
  <2>2. disk' = [disk EXCEPT ![r.from] = NoFile, ![r.to] = disk[r.from]]
    BY <1>8 DEF MoveFile, Step
  <2>. QED
    BY <1>3, <2>1, <2>2
<1>9. CASE OpenTemp(o)
  <2>1. /\ r.at = "openTemp" /\ r.from \in Files /\ disk' = [disk EXCEPT ![r.from] = Torn]
        /\ disk[r.from] = NoFile
    BY <1>0, <1>9 DEF OpenTemp, Step, WellFormed, ChecksHold
  <2>. QED
    BY <1>1, <1>2, <2>1 DEF Loadable
<1>10. CASE FillTemp(o)
  <2>1. /\ r.from \in Files /\ disk' = [disk EXCEPT ![r.from] = r.content]
        /\ disk[r.from] = Torn /\ r.content \in Manifest
    BY <1>0, <1>10 DEF FillTemp, Step, WellFormed, ChecksHold
  <2>. QED
    BY <1>1, <1>2, <2>1 DEF Loadable
<1>11. CASE Publish(o)
  <2>1. /\ r.at = "publish" /\ r.from \in Files /\ r.to \in Files
        /\ disk[r.from] \in Manifest /\ disk[r.to] = NoFile
    BY <1>0, <1>11 DEF Publish, WellFormed, ChecksHold, Loadable
  <2>2. disk' = [disk EXCEPT ![r.from] = NoFile, ![r.to] = disk[r.from]]
    BY <1>11 DEF Publish, Step
  <2>. QED
    BY <1>3, <2>1, <2>2
<1>12. CASE FileError(o)
  <2>1. /\ r.at \in {"fillTemp", "publish"} /\ r.from \in Files
        /\ disk' = [disk EXCEPT ![r.from] = NoFile]
        /\ r.at = "fillTemp" => disk[r.from] = Torn
    BY <1>0, <1>12 DEF FileError, Step, WellFormed, ChecksHold
  <2>. QED
    BY <1>1, <1>2, <2>1 DEF Loadable
<1>. QED
  BY <1>4, <1>5, <1>6, <1>7, <1>8, <1>9, <1>10, <1>11, <1>12 DEF OpStep

\* Unique ids and whole files make the runtime's catalog readable.
LEMMA UniqueIsReadable ==
    ASSUME NEW d \in Disk, IdsAreUnique(d), \A f \in RuntimeFiles(d) : d[f] # Torn
    PROVE  Readable(d) /\ RuntimeFiles(d) \subseteq Listed(d)
<1>1. RuntimeFiles(d) \subseteq Listed(d)
  BY DEF RuntimeFiles, RuntimePath, Listed, Disk
<1>. QED
  BY <1>1 DEF Readable, IdsAreUnique

\* A manifest can be run when the catalog can be read and a file of it loads.
LEMMA RunnableMeans ==
    ASSUME NEW d \in Disk, NEW id
    PROVE  Runnable(d, id) <=>
             /\ Readable(d)
             /\ \E f \in RuntimeFiles(d) : d[f].id = id /\ Loadable(d[f])
<1>1. Readable(d) => \A f \in RuntimeFiles(d) : d[f] # Torn
  BY DEF Readable
<1>2. Readable(d) => (id \in ActiveIds(d) <=> \E f \in RuntimeFiles(d) : d[f].id = id)
  BY <1>1 DEF ActiveIds
<1>. QED
  BY <1>2 DEF Runnable, AnswerOf

\* Until two operations overlap, a manifest stops being runnable only because
\* it was archived, renamed or saved over, or while a wizard's temporary file
\* stops every manifest (archive_manifest, rename_manifest, save and
\* write_manifest_candidate): no operation, failure or crash of one, takes
\* another manifest out of service.
THEOREM StaysRunnableCorrect == Spec => StaysRunnable
<1>1. ASSUME IndInv, IndInv', ~overlapped, ~overlapped', NEW o \in Operators, OpStep(o),
             disk' # disk, NEW id, Runnable(disk, id), ~Runnable(disk', id)
      PROVE  StopsBecause(o, id)
  <2>1. disk \in Disk /\ disk' \in Disk /\ IdsAreUnique(disk')
    BY <1>1 DEF IndInv, TypeOK
  <2>2. PICK f \in Files, g \in Files : Changes(o, f, g)
    BY <1>1, StepChanges
  <2>3. PICK w \in RuntimeFiles(disk) : disk[w].id = id /\ Loadable(disk[w])
    BY <1>1, <2>1, RunnableMeans
  <2>4. Readable(disk) /\ w \in Files /\ disk[w] \in Manifest
    BY <1>1, <2>1, <2>3, RunnableMeans DEF RuntimeFiles, Loadable
  <2>5. NoFile \notin Manifest /\ Torn \notin Manifest /\ NoFile # Torn
    BY FilesFacts
  <2>. SUFFICES ASSUME op[o].at # "openTemp", w # f PROVE FALSE
    BY <2>2, <2>3, <2>4 DEF StopsBecause, Changes, HasId
  <2>6. disk'[w] = disk[w]
    BY <2>2, <2>4, <2>5 DEF Changes
  <2>7. w \in RuntimeFiles(disk')
    BY <2>3, <2>4, <2>6 DEF RuntimeFiles
  <2>8. \A h \in RuntimeFiles(disk') : disk'[h] # Torn
    <3>. SUFFICES ASSUME NEW h \in RuntimeFiles(disk'), disk'[h] = Torn PROVE FALSE
      OBVIOUS
    <3>1. h \in Files /\ h \notin {f, g}
      BY <2>2, <2>5 DEF Changes, RuntimeFiles
    <3>2. disk[h] = Torn /\ h \in RuntimeFiles(disk)
      BY <2>2, <2>5, <3>1 DEF Changes, RuntimeFiles
    <3>. QED
      BY <2>4, <3>2 DEF Readable
  <2>. QED
    BY <1>1, <2>1, <2>3, <2>6, <2>7, <2>8, UniqueIsReadable, RunnableMeans
<1>2. IndInv /\ IndInv' /\ [Next]_vars =>
        [disk' = disk \/ \A id \in Ids :
            Runnable(disk, id) /\ ~Runnable(disk', id) =>
            \/ overlapped
            \/ \E o \in Operators : op[o].at # "idle" /\ StopsBecause(o, id)]_vars
  <2>. SUFFICES ASSUME IndInv, IndInv', Next, disk' # disk, ~overlapped, NEW id \in Ids,
                       Runnable(disk, id), ~Runnable(disk', id)
                PROVE  \E o \in Operators : op[o].at # "idle" /\ StopsBecause(o, id)
    OBVIOUS
  <2>1. ASSUME NEW o \in Operators, BeginOp(o) PROVE FALSE
    BY <2>1 DEF BeginOp, SaveManifest, DuplicateManifest, RenameManifest,
                ArchiveManifest, RestoreManifest, CreateFromTemplate, Begin
  <2>2. ASSUME NEW o \in Operators, OpStep(o)
        PROVE  op[o].at # "idle" /\ StopsBecause(o, id)
    <3>1. PICK d \in Disk, phase \in Phases : Active(o) /\ Step(o, d, phase)
      BY <2>2, StepShape DEF IndInv
    <3>2. ~overlapped'
      BY <3>1 DEF Step
    <3>. QED
      BY <1>1, <2>2, <3>1, <3>2 DEF Active
  <2>3. ASSUME NEW l \in Loaders, LoadStep(l), Watch PROVE FALSE
    BY <2>3, LoadKeepsTypes DEF IndInv
  <2>. QED
    BY <2>1, <2>2, <2>3 DEF Next
<1>. QED
  BY <1>2, InvariantStep, InvariantCorrect, PTL DEF Spec, StaysRunnable

-----------------------------------------------------------------------------
(***************************************************************************)
(* A load among the operations.                                            *)
(***************************************************************************)

\* What the history of a load records in a step.
LEMMA WatchMeans ==
    ASSUME Watch, NEW l \in Loaders
    PROVE  /\ load'[l].at # "reading" => seen'[l] = seen[l]
           /\ load'[l].at = "reading" =>
                /\ load[l].at # "idle" =>
                     /\ seen'[l].expected = seen[l].expected
                     /\ seen'[l].was = seen[l].was \cup ActiveIds(disk')
                     /\ seen'[l].wasNot = seen[l].wasNot \cup (Ids \ ActiveIds(disk'))
                     /\ seen'[l].changed <=> (seen[l].changed \/ disk' # disk)
                /\ load[l].at = "idle" =>
                     /\ seen'[l].expected = AnswerOf(disk, load'[l].id)
                     /\ seen'[l].was = ActiveIds(disk')
                     /\ seen'[l].wasNot = Ids \ ActiveIds(disk')
<1> DEFINE start == [NothingSeen EXCEPT !.expected = AnswerOf(disk, load'[l].id)]
           s == IF load[l].at = "idle" THEN start ELSE seen[l]
<1>1. seen'[l] = IF load'[l].at # "reading" THEN seen[l]
                 ELSE [expected |-> s.expected,
                       was |-> s.was \cup ActiveIds(disk'),
                       wasNot |-> s.wasNot \cup (Ids \ ActiveIds(disk')),
                       changed |-> s.changed \/ disk' # disk]
  BY DEF Watch
<1>2. start.expected = AnswerOf(disk, load'[l].id) /\ start.was = {} /\ start.wasNot = {}
  BY DEF NothingSeen
<1>. HIDE DEF start
<1>3. load[l].at = "idle" => s = start
  OBVIOUS
<1>4. load[l].at # "idle" => s = seen[l]
  OBVIOUS
<1>. HIDE DEF s
<1>5. CASE load'[l].at # "reading"
  BY <1>1, <1>5
<1>6. CASE load'[l].at = "reading"
  <2>1. /\ seen'[l].expected = s.expected
        /\ seen'[l].was = s.was \cup ActiveIds(disk')
        /\ seen'[l].wasNot = s.wasNot \cup (Ids \ ActiveIds(disk'))
        /\ seen'[l].changed = (s.changed \/ disk' # disk)
    BY <1>1, <1>6
  <2>. QED
    BY <1>2, <1>3, <1>4, <1>6, <2>1
<1>. QED
  BY <1>5, <1>6

\* What is gone stays gone, whoever does what.
LEMMA GoneStays ==
    ASSUME IndInv, NEW f \in Files, Gone(f), NEW o \in Operators, OpStep(o) \/ BeginOp(o)
    PROVE  Gone(f)'
<1>0. TypeOK /\ NewNamesFree /\ ops \in Nat /\ \A p \in Operators : PathsFit(op[p], ops)
  BY DEF IndInv, TypeOK
<1>1. PICK n \in 1..ops : f = TempFile(n)
  BY DEF Gone
<1>2. n \in 1..MaxOps /\ f[2] = TempName[n] /\ f[2] \in TempNames
  BY <1>0, <1>1, FilesFacts, CatalogAssumption DEF TypeOK
<1>3. CASE OpStep(o)
  <2>1. ops' = ops
    <3>1. PICK d \in Disk, phase \in Phases : Step(o, d, phase)
      BY <1>0, <1>3, StepShape
    <3>. QED
      BY <3>1 DEF Step
  <2>2. ASSUME NEW g \in Files, g[2] = f[2], disk'[g] # NoFile PROVE FALSE
    <3>1. \A h \in Files : h[2] = g[2] => disk[h] = NoFile
      BY <2>2 DEF Gone
    <3>2. Making(op[o]) /\ g = op[o].from
      BY <1>0, <1>2, <1>3, <2>2, <3>1, NewFile
    <3>3. PICK m \in 1..ops : g = TempFile(m)
      BY <1>0, <3>2 DEF PathsFit
    <3>4. m \in 1..MaxOps
      BY <1>0, CatalogAssumption DEF TypeOK
    <3>4a. g[2] = TempName[m]
      BY <3>3, <3>4, FilesFacts
    <3>5. g = f
      BY <1>1, <1>2, <2>2, <3>3, <3>4, <3>4a, CatalogAssumption
    <3>. QED
      BY <3>2, <3>5 DEF Gone
  <2>3. \A p \in Operators : Making(op'[p]) => op'[p].from # f
    BY <1>0, <1>3, StepMaking DEF Gone
  <2>. QED
    BY <1>1, <2>1, <2>2, <2>3 DEF Gone
<1>4. CASE BeginOp(o)
  <2>1. PICK phase \in Phases, from \in Places, to \in Places,
             content \in Manifest \cup {NoFile} :
             LET r == [at |-> phase, from |-> from, to |-> to, content |-> content]
             IN  /\ WellFormed(r) /\ PathsFit(r, ops + 1)
                 /\ r.at # "idle" /\ (Making(r) => r.from = TempFile(ops + 1))
                 /\ IdsAreUnique(disk) => ChecksHold(disk, r)
                 /\ Begin(o, phase, from, to, content)
    BY <1>0, <1>4, BeginShape
  <2> DEFINE r == [at |-> phase, from |-> from, to |-> to, content |-> content]
  <2>2. /\ Making(r) => r.from = TempFile(ops + 1)
        /\ op' = [op EXCEPT ![o] = r] /\ disk' = disk /\ ops' = ops + 1 /\ ops < MaxOps
    BY <2>1 DEF Begin
  <2> HIDE DEF r
  <2>3. TempFile(ops + 1) # f
    <3>1. ops + 1 \in 1..MaxOps /\ ops + 1 # n
      BY <1>0, <1>1, <2>2, CatalogAssumption
    <3>2. TempFile(ops + 1)[2] = TempName[ops + 1]
      BY <3>1, FilesFacts
    <3>. QED
      BY <1>2, <3>1, <3>2, CatalogAssumption
  <2>4. \A p \in Operators : Making(op'[p]) => op'[p].from # f
    BY <1>0, <2>2, <2>3 DEF Gone, TypeOK
  <2>5. n \in 1..(ops + 1)
    BY <1>0, <1>1
  <2>. QED
    BY <1>1, <2>2, <2>4, <2>5 DEF Gone
<1>. QED
  BY <1>3, <1>4

\* An id that stays active through a step of an operation that is alone stays
\* in the sight of a load: the file that has it keeps it, or is the temporary
\* file that is published and then gone for good.
LEMMA InSightStays ==
    ASSUME IndInv, IndInv', ~overlapped, NEW o \in Operators, OpStep(o), load' = load,
           NEW l \in Loaders, load[l].left \subseteq Files,
           \A f \in load[l].left : RuntimePath(f),
           NEW id \in Ids, InSight(l, id), id \in ActiveIds(disk')
    PROVE  InSight(l, id)'
<1>0. /\ disk \in Disk /\ disk' \in Disk /\ IdsAreUnique(disk) /\ OneAtATime
      /\ ChecksHold(disk, op[o]) /\ PathsFit(op[o], ops)
  BY DEF IndInv, TypeOK
<1>1. CASE load[l].found[id] # NoFile
  BY <1>1 DEF InSight
<1>2. ASSUME NEW f \in load[l].left, Gone(f) PROVE InSight(l, id)'
  <2>1. Gone(f)'
    BY <1>2, GoneStays
  <2>. QED
    BY <2>1 DEF InSight
<1>3. ASSUME NEW f \in load[l].left, HasId(f, id) PROVE InSight(l, id)'
  <2>0. f \in Files /\ RuntimePath(f) /\ f[1] # "archive"
    BY DEF RuntimePath
  <2>. SUFFICES ASSUME ~HasId(f, id)' PROVE Gone(f)'
    BY DEF InSight
  <2>1. NoFile \notin Manifest /\ Torn \notin Manifest
    BY FilesFacts
  <2>2. disk' # disk
    BY <1>3 DEF HasId
  <2>3. PICK a \in Files, b \in Files : Changes(o, a, b)
    BY <2>2, StepChanges
  <2>4. f = a \/ f = b
    BY <1>3, <2>0, <2>3 DEF Changes, HasId
  <2>5. PICK w \in Files : disk'[w] \in Manifest /\ disk'[w].id = id /\ RuntimePath(w)
    BY <1>0 DEF ActiveIds, RuntimeFiles, Disk
  <2>6. w # f
    BY <2>5 DEF HasId
  <2>7. ASSUME disk'[w] = disk[w] PROVE FALSE
    <3>1. \A h \in Files : RuntimePath(h) /\ disk[h] \in Manifest => h \in Listed(disk)
      BY DEF RuntimePath, Listed
    <3>2. w \in Listed(disk) /\ f \in Listed(disk) /\ disk[w].id = disk[f].id
      BY <1>3, <2>0, <2>5, <2>7, <3>1 DEF HasId
    <3>. QED
      BY <1>0, <2>6, <3>2 DEF IdsAreUnique
  <2>8. a # b /\ w = b
    BY <2>3, <2>4, <2>5, <2>6, <2>7, <2>1 DEF Changes
  <2>9. /\ op[o].at \in {"move", "publish"} /\ a = op[o].from /\ b = op[o].to
        /\ disk[b] = NoFile /\ disk'[a] = NoFile
    BY <2>3, <2>8 DEF Changes
  <2>10. f = a
    BY <1>3, <2>1, <2>4, <2>9 DEF HasId
  <2>11. op[o].at = "publish"
    <3>. SUFFICES ASSUME op[o].at = "move" PROVE FALSE
      BY <2>9
    <3>1. b[1] = "archive"
      BY <1>0, <2>0, <2>9, <2>10 DEF PathsFit
    <3>. QED
      BY <2>5, <2>8, <3>1 DEF RuntimePath
  <2>12. \A p \in Operators : ~Making(op'[p])
    <3>1. op' = [op EXCEPT ![o] = Idle]
      BY <2>11 DEF OpStep, WriteManifest, CheckWritten, UndoWrite, DropOld, MoveFile,
                   OpenTemp, FillTemp, Publish, FileError, Crash, Step
    <3>2. \A p \in Operators : p # o => ~Making(op[p])
      BY <1>0, <2>11 DEF OneAtATime, Active, Making
    <3>3. ~Making(Idle)
      BY DEF Making, Idle
    <3>. QED
      BY <3>1, <3>2, <3>3 DEF IndInv, TypeOK
  <2>13. \A g \in Files : g[2] = f[2] => disk'[g] = NoFile
    <3>1. \A g \in Files : g[2] = f[2] => g = f \/ disk[g] = NoFile
      BY <1>0, <2>9, <2>10, <2>11 DEF ChecksHold
    <3>2. PICK n \in 1..ops : f = TempFile(n)
      BY <1>0, <2>9, <2>10, <2>11 DEF PathsFit, Making
    <3>3. f[2] \in TempNames
      <4>1. n \in 1..MaxOps
        BY CatalogAssumption DEF IndInv, TypeOK
      <4>. QED
        BY <3>2, <4>1, FilesFacts
    <3>4. b[2] # f[2]
      BY <1>0, <2>9, <2>11, <3>3 DEF PathsFit
    <3>. QED
      BY <2>3, <2>9, <2>10, <3>1, <3>4 DEF Changes
  <2>14. \E n \in 1..ops' : f = TempFile(n)
    <3>1. ops' = ops
      BY <2>11 DEF OpStep, WriteManifest, CheckWritten, UndoWrite, DropOld, MoveFile,
                   OpenTemp, FillTemp, Publish, FileError, Crash, Step
    <3>. QED
      BY <1>0, <2>9, <2>10, <2>11, <3>1 DEF PathsFit, Making
  <2>. QED
    BY <2>12, <2>13, <2>14 DEF Gone
<1>. QED
  BY <1>1, <1>2, <1>3 DEF InSight

\* A load that takes no part in a step of the other loads.
LEMMA LoadWaits ==
    ASSUME NEW l \in Loaders, LoadFits(l), Honest(l), load[l] \in Load,
           load'[l] = load[l], UNCHANGED <<disk, op, ops, overlapped>>,
           Watch \/ seen' = seen
    PROVE  LoadFits(l)' /\ Honest(l)'
<1>1. CASE load[l].at # "reading"
  <2>1. seen'[l] = seen[l]
    BY <1>1, WatchMeans
  <2>. QED
    BY <1>1, <2>1 DEF LoadFits, Honest
<1>2. CASE load[l].at = "reading"
  <2>1. /\ ActiveIds(disk) \subseteq seen[l].was
        /\ Ids \ ActiveIds(disk) \subseteq seen[l].wasNot
        /\ load[l].answer = "none"
    BY <1>2 DEF LoadFits
  <2>2. /\ seen'[l].expected = seen[l].expected /\ seen'[l].was = seen[l].was
        /\ seen'[l].wasNot = seen[l].wasNot /\ (seen'[l].changed <=> seen[l].changed)
    <3>1. CASE Watch
      <4>1. /\ seen'[l].expected = seen[l].expected
            /\ seen'[l].was = seen[l].was \cup ActiveIds(disk')
            /\ seen'[l].wasNot = seen[l].wasNot \cup (Ids \ ActiveIds(disk'))
            /\ seen'[l].changed <=> (seen[l].changed \/ disk' # disk)
        BY <1>2, <3>1, WatchMeans
      <4>. QED
        BY <2>1, <4>1
    <3>. QED
      BY <3>1
  <2>3. \A i : InSight(l, i) => InSight(l, i)'
    BY DEF InSight, HasId, Gone
  <2>4. AsRead(l) => AsRead(l)'
    BY <2>2 DEF AsRead
  <2>. QED
    BY <1>2, <2>1, <2>2, <2>3, <2>4 DEF LoadFits, Honest
<1>. QED
  BY <1>1, <1>2

\* A step of an operation among the loads.
LEMMA OpKeepsLoads ==
    ASSUME IndInv, IndInv', NEW o \in Operators, OpStep(o), Watch,
           NEW l \in Loaders, LoadFits(l), Honest(l)
    PROVE  LoadFits(l)' /\ Honest(l)'
<1>0. load' = load /\ overlapped' = overlapped
  <2>1. PICK d \in Disk, phase \in Phases : Step(o, d, phase)
    BY StepShape DEF IndInv
  <2>. QED
    BY <2>1 DEF Step
<1>1. CASE load[l].at # "reading"
  <2>1. seen'[l] = seen[l]
    BY <1>0, <1>1, WatchMeans
  <2>. QED
    BY <1>0, <1>1, <2>1 DEF LoadFits, Honest
<1>2. CASE load[l].at = "reading"
  <2>1. /\ load[l].id \in Ids /\ load[l].answer = "none"
        /\ \A f \in load[l].left : RuntimePath(f)
        /\ Ids \ ActiveIds(disk) \subseteq seen[l].wasNot
        /\ \A i \in Ids : load[l].found[i] # NoFile => i \in seen[l].was
        /\ ~seen[l].changed => AsRead(l)
        /\ ~overlapped => \A i \in Ids \ seen[l].wasNot : InSight(l, i)
    BY <1>2 DEF LoadFits
  <2>2. /\ seen'[l].expected = seen[l].expected
        /\ seen'[l].was = seen[l].was \cup ActiveIds(disk')
        /\ seen'[l].wasNot = seen[l].wasNot \cup (Ids \ ActiveIds(disk'))
        /\ seen'[l].changed <=> (seen[l].changed \/ disk' # disk)
    BY <1>0, <1>2, WatchMeans
  <2>3. ASSUME ~overlapped, NEW i \in Ids \ seen'[l].wasNot PROVE InSight(l, i)'
    <3>1. i \in Ids \ seen[l].wasNot /\ i \in ActiveIds(disk')
      BY <2>2, <2>3
    <3>2. load[l].left \subseteq Files
      BY DEF IndInv, TypeOK, Load
    <3>. QED
      BY <1>0, <2>1, <2>3, <3>1, <3>2, InSightStays
  <2>4. ~seen'[l].changed => AsRead(l)'
    BY <1>0, <2>1, <2>2 DEF AsRead
  <2>. QED
    BY <1>0, <1>2, <2>1, <2>2, <2>3, <2>4 DEF LoadFits, Honest
<1>. QED
  BY <1>1, <1>2

\* An operation begins among the loads.
LEMMA BeginKeepsLoads ==
    ASSUME IndInv, NEW o \in Operators, BeginOp(o),
           NEW l \in Loaders, LoadFits(l), Honest(l)
    PROVE  LoadFits(l)' /\ Honest(l)'
<1>1. UNCHANGED <<disk, load, seen>> /\ (overlapped => overlapped')
  BY DEF BeginOp, SaveManifest, DuplicateManifest, RenameManifest,
         ArchiveManifest, RestoreManifest, CreateFromTemplate, Begin
<1>2. ASSUME load[l].at = "reading", NEW i, InSight(l, i) PROVE InSight(l, i)'
  <2>1. \A f \in load[l].left : f \in Files
    BY DEF IndInv, TypeOK, Load
  <2>2. \A f \in Files : Gone(f) => Gone(f)'
    BY GoneStays
  <2>. QED
    BY <1>1, <1>2, <2>1, <2>2 DEF InSight, HasId
<1>3. AsRead(l) => AsRead(l)'
  BY <1>1 DEF AsRead
<1>. QED
  BY <1>1, <1>2, <1>3 DEF LoadFits, Honest

\* A load begins: it will read every file of the catalog.
LEMMA StartFits ==
    ASSUME IndInv, NEW l \in Loaders, NEW id \in Ids, StartLoad(l, id), Watch
    PROVE  LoadFits(l)' /\ Honest(l)'
<1> DEFINE r == [at |-> "reading", id |-> id, left |-> RuntimeFiles(disk),
                 found |-> NoLoad.found, answer |-> "none"]
<1>1. load'[l] = r /\ load[l].at = "idle" /\ disk' = disk
  BY DEF StartLoad, IndInv, TypeOK
<1>2. /\ seen'[l].expected = AnswerOf(disk, id) /\ seen'[l].was = ActiveIds(disk)
      /\ seen'[l].wasNot = Ids \ ActiveIds(disk)
  BY <1>1, WatchMeans
<1>3. \A i \in Ids : r.found[i] = NoFile
  BY DEF NoLoad
<1>4. /\ r.at = "reading" /\ r.id = id /\ r.left = RuntimeFiles(disk) /\ r.answer = "none"
  OBVIOUS
<1> HIDE DEF r
<1>5. \A f \in RuntimeFiles(disk) : RuntimePath(f)
  BY DEF RuntimeFiles
<1>6. AsRead(l)'
  BY <1>1, <1>2, <1>3, <1>4 DEF AsRead
<1>7. ASSUME NEW i \in Ids, i \in ActiveIds(disk) PROVE InSight(l, i)'
  <2>1. PICK f \in RuntimeFiles(disk) : disk[f] # Torn /\ disk[f].id = i
    BY <1>7 DEF ActiveIds
  <2>2. HasId(f, i)'
    BY <1>1, <2>1 DEF HasId, RuntimeFiles, IndInv, TypeOK, Disk
  <2>. QED
    BY <1>1, <1>4, <2>1, <2>2 DEF InSight
<1>. QED
  BY <1>1, <1>2, <1>3, <1>4, <1>5, <1>6, <1>7 DEF LoadFits, Honest

\* An answer is recorded and ends the load.
LEMMA AnswerFits ==
    ASSUME IndInv, NEW l \in Loaders, load[l].at = "reading", NEW answer,
           Answer(l, answer), Watch,
           ~seen[l].changed => answer = seen[l].expected,
           answer = "loaded" => load[l].id \in seen[l].was,
           answer = "missing" => overlapped \/ load[l].id \in seen[l].wasNot
    PROVE  LoadFits(l)' /\ Honest(l)'
<1>1. load'[l] = [NoLoad EXCEPT !.id = load[l].id, !.answer = answer]
  BY DEF Answer, IndInv, TypeOK
<1>2. /\ load'[l].at = "idle" /\ load'[l].id = load[l].id
      /\ load'[l].answer = answer /\ overlapped' = overlapped
  <2>1. NoLoad.at = "idle" /\ DOMAIN NoLoad = {"at", "id", "left", "found", "answer"}
    BY DEF NoLoad
  <2>2. load'[l].at = "idle" /\ load'[l].id = load[l].id /\ load'[l].answer = answer
    BY <1>1, <2>1
  <2>. QED
    BY <2>2 DEF Answer
<1>3. seen'[l] = seen[l]
  BY <1>2, WatchMeans
<1>. QED
  BY <1>2, <1>3 DEF LoadFits, Honest

\* A load reads a file of its list.
LEMMA ReadFits ==
    ASSUME IndInv, NEW l \in Loaders, ReadNext(l), Watch, LoadFits(l)
    PROVE  LoadFits(l)' /\ Honest(l)'
<1> DEFINE r == load[l]
<1>0. r \in Load /\ disk \in Disk /\ r.at = "reading" /\ load \in [Loaders -> Load]
  BY DEF IndInv, TypeOK, ReadNext
<1>1. /\ r.id \in Ids /\ r.answer = "none" /\ \A f \in r.left : RuntimePath(f)
      /\ ActiveIds(disk) \subseteq seen[l].was
      /\ Ids \ ActiveIds(disk) \subseteq seen[l].wasNot
      /\ \A i \in Ids : r.found[i] # NoFile => i \in seen[l].was
      /\ ~seen[l].changed => AsRead(l)
      /\ ~overlapped => \A i \in Ids \ seen[l].wasNot : InSight(l, i)
  BY <1>0 DEF LoadFits
<1>2. PICK f \in r.left :
         IF disk[f] \in {NoFile, Torn} \/ r.found[disk[f].id] # NoFile
         THEN Answer(l, "failed")
         ELSE /\ load' = [load EXCEPT ![l].left = @ \ {f}, ![l].found[disk[f].id] = f]
              /\ UNCHANGED <<disk, op, overlapped, ops, loads>>
  BY DEF ReadNext
<1>3. f \in Files /\ RuntimePath(f) /\ f # NoFile
  BY <1>0, <1>1, FilesFacts DEF Load
<1>4. CASE disk[f] \in {NoFile, Torn} \/ r.found[disk[f].id] # NoFile
  <2>1. ASSUME ~seen[l].changed PROVE seen[l].expected = "failed"
    <3>1. AsRead(l)
      BY <1>1, <2>1
    <3>2. f \in RuntimeFiles(disk) /\ disk[f] # NoFile
      BY <3>1 DEF AsRead, RuntimeFiles
    <3>3. ~Readable(disk)
      <4>1. CASE disk[f] = Torn
        BY <3>2, <4>1 DEF Readable
      <4>2. CASE disk[f] # Torn
        <5>1. disk[f] \in Manifest /\ disk[f].id \in Ids
          BY <1>0, <1>3, <3>2, <4>2 DEF Disk, Manifest
        <5>2. PICK g \in RuntimeFiles(disk) \ r.left : disk[g].id = disk[f].id
          BY <1>4, <3>1, <3>2, <4>2, <5>1 DEF AsRead
        <5>. QED
          BY <3>2, <5>2 DEF Readable
      <4>. QED
        BY <4>1, <4>2
    <3>. QED
      BY <3>1, <3>3 DEF AsRead, AnswerOf
  <2>. QED
    BY <1>0, <1>2, <1>4, <2>1, AnswerFits
<1>5. CASE disk[f] \notin {NoFile, Torn} /\ r.found[disk[f].id] = NoFile
  <2>1. disk[f] \in Manifest /\ disk[f].id \in Ids
    BY <1>0, <1>3, <1>5 DEF Disk, Manifest
  <2>2. PICK j \in Ids : j = disk[f].id
    BY <2>1
  <2>3. /\ load'[l].at = "reading" /\ load'[l].id = r.id /\ load'[l].answer = r.answer
        /\ load'[l].left = r.left \ {f}
        /\ \A i \in Ids : load'[l].found[i] = IF i = j THEN f ELSE r.found[i]
        /\ UNCHANGED <<disk, op, overlapped, ops>>
    BY <1>0, <1>2, <1>5, <2>2 DEF Load
  <2>4. /\ seen'[l].expected = seen[l].expected /\ seen'[l].was = seen[l].was
        /\ seen'[l].wasNot = seen[l].wasNot /\ (seen'[l].changed <=> seen[l].changed)
    <3>1. /\ seen'[l].expected = seen[l].expected
          /\ seen'[l].was = seen[l].was \cup ActiveIds(disk')
          /\ seen'[l].wasNot = seen[l].wasNot \cup (Ids \ ActiveIds(disk'))
          /\ seen'[l].changed <=> (seen[l].changed \/ disk' # disk)
      BY <1>0, <2>3, WatchMeans
    <3>. QED
      BY <1>1, <2>3, <3>1
  <2>5. f \in RuntimeFiles(disk) /\ j \in seen[l].was
    <3>1. f \in RuntimeFiles(disk)
      BY <1>3, <1>5 DEF RuntimeFiles
    <3>2. j \in ActiveIds(disk)
      BY <1>5, <2>2, <3>1 DEF ActiveIds
    <3>. QED
      BY <1>1, <3>1, <3>2
  <2>6. ASSUME AsRead(l) PROVE AsRead(l)'
    <3>1. r.left \subseteq RuntimeFiles(disk) /\ seen[l].expected = AnswerOf(disk, r.id)
      BY <2>6 DEF AsRead
    <3>2. ASSUME NEW g \in RuntimeFiles(disk) \ (r.left \ {f})
          PROVE  disk[g] # Torn /\ load'[l].found[disk[g].id] = g
      <4>1. CASE g = f
        BY <1>5, <2>2, <2>3, <4>1
      <4>2. CASE g # f
        <5>1. disk[g] # Torn /\ r.found[disk[g].id] = g /\ g \in Files /\ disk[g] # NoFile
          BY <2>6, <3>2, <4>2 DEF AsRead, RuntimeFiles
        <5>2. disk[g].id \in Ids
          BY <1>0, <5>1 DEF Disk, Manifest
        <5>3. disk[g].id # j
          BY <1>5, <2>2, <5>1, FilesFacts
        <5>. QED
          BY <2>3, <5>1, <5>2, <5>3
      <4>. QED
        BY <4>1, <4>2
    <3>3. ASSUME NEW i \in Ids, load'[l].found[i] # NoFile
          PROVE  /\ load'[l].found[i] \in RuntimeFiles(disk) \ (r.left \ {f})
                 /\ disk[load'[l].found[i]].id = i
      BY <2>2, <2>3, <2>5, <2>6, <3>3 DEF AsRead
    <3>. QED
      BY <2>3, <2>4, <3>1, <3>2, <3>3 DEF AsRead
  <2>7. ASSUME NEW i \in Ids, InSight(l, i) PROVE InSight(l, i)'
    <3>1. CASE r.found[i] # NoFile
      BY <1>3, <2>3, <3>1 DEF InSight
    <3>2. ASSUME NEW g \in r.left, HasId(g, i) \/ Gone(g) PROVE InSight(l, i)'
      <4>1. CASE g # f
        BY <2>3, <3>2, <4>1 DEF InSight, HasId, Gone
      <4>2. CASE g = f
        <5>1. ~Gone(f)
          BY <1>3, <1>5 DEF Gone
        <5>. QED
          BY <1>3, <2>2, <2>3, <3>2, <4>2, <5>1 DEF InSight, HasId
      <4>. QED
        BY <4>1, <4>2
    <3>. QED
      BY <2>7, <3>1, <3>2 DEF InSight
  <2>8. /\ \A g \in load'[l].left : RuntimePath(g)
        /\ \A i \in Ids : load'[l].found[i] # NoFile => i \in seen'[l].was
    BY <1>1, <2>3, <2>4, <2>5
  <2>9. ~seen'[l].changed => AsRead(l)'
    BY <1>1, <2>4, <2>6
  <2>10. ~overlapped' => \A i \in Ids \ seen'[l].wasNot : InSight(l, i)'
    BY <1>1, <2>3, <2>4, <2>7
  <2>11. ActiveIds(disk') \subseteq seen'[l].was /\ Ids \ ActiveIds(disk') \subseteq seen'[l].wasNot
    BY <1>1, <2>3, <2>4
  <2>. QED
    BY <1>1, <2>3, <2>8, <2>9, <2>10, <2>11 DEF LoadFits, Honest
<1>. QED
  BY <1>4, <1>5

\* A load has read every file and opens the one it was after.
LEMMA OpenFits ==
    ASSUME IndInv, NEW l \in Loaders, OpenFound(l), Watch, LoadFits(l)
    PROVE  LoadFits(l)' /\ Honest(l)'
<1> DEFINE r == load[l]
           f == r.found[r.id]
<1>0. r \in Load /\ disk \in Disk /\ r.at = "reading" /\ r.left = {}
  BY DEF IndInv, TypeOK, OpenFound
<1>1. /\ r.id \in Ids
      /\ \A i \in Ids : r.found[i] # NoFile => i \in seen[l].was
      /\ ~seen[l].changed => AsRead(l)
      /\ ~overlapped => \A i \in Ids \ seen[l].wasNot : InSight(l, i)
  BY <1>0 DEF LoadFits
<1>2. PICK answer : /\ Answer(l, answer)
                    /\ answer = IF f = NoFile THEN "missing"
                                ELSE IF Loadable(disk[f]) THEN "loaded" ELSE "failed"
  BY DEF OpenFound
<1>3. ASSUME ~seen[l].changed PROVE answer = seen[l].expected
  <2>1. /\ seen[l].expected = AnswerOf(disk, r.id)
        /\ \A g \in RuntimeFiles(disk) : disk[g] # Torn /\ r.found[disk[g].id] = g
        /\ f # NoFile => f \in RuntimeFiles(disk) /\ disk[f].id = r.id
    BY <1>0, <1>1, <1>3 DEF AsRead
  <2>2. Readable(disk)
    BY <2>1 DEF Readable
  <2>3. CASE f = NoFile
    <3>1. r.id \notin ActiveIds(disk)
      <4>. SUFFICES ASSUME NEW g \in RuntimeFiles(disk), disk[g].id = r.id PROVE FALSE
        BY DEF ActiveIds
      <4>. QED
        BY <2>1, <2>3, FilesFacts DEF RuntimeFiles
    <3>. QED
      BY <1>2, <2>1, <2>2, <2>3, <3>1 DEF AnswerOf
  <2>4. CASE f # NoFile
    <3>1. r.id \in ActiveIds(disk)
      BY <2>1, <2>4 DEF ActiveIds
    <3>2. \A g \in RuntimeFiles(disk) : disk[g].id = r.id => g = f
      BY <2>1
    <3>. HIDE DEF f, r
    <3>3. AnswerOf(disk, r.id) = IF Loadable(disk[f]) THEN "loaded" ELSE "failed"
      BY <2>1, <2>2, <2>4, <3>1, <3>2 DEF AnswerOf
    <3>. QED
      BY <1>2, <2>1, <2>4, <3>3
  <2>. QED
    BY <2>3, <2>4
<1>4. answer = "loaded" => r.id \in seen[l].was
  BY <1>1, <1>2
<1>5. answer = "missing" => overlapped \/ r.id \in seen[l].wasNot
  BY <1>0, <1>1, <1>2 DEF InSight
<1>. QED
  BY <1>0, <1>2, <1>3, <1>4, <1>5, AnswerFits

LEMMA LoadInvStep == IndInv /\ IndInv' /\ LoadInv /\ [Next]_vars => LoadInv'
<1>. SUFFICES ASSUME IndInv, IndInv', LoadInv, [Next]_vars, NEW l \in Loaders
              PROVE  LoadFits(l)' /\ Honest(l)'
  BY DEF LoadInv, LoadsAreHonest
<1>0. LoadFits(l) /\ Honest(l) /\ load[l] \in Load /\ load \in [Loaders -> Load]
  BY DEF LoadInv, LoadsAreHonest, IndInv, TypeOK
<1>1. ASSUME NEW o \in Operators, BeginOp(o) PROVE LoadFits(l)' /\ Honest(l)'
  BY <1>0, <1>1, BeginKeepsLoads
<1>2. ASSUME NEW o \in Operators, OpStep(o), Watch PROVE LoadFits(l)' /\ Honest(l)'
  BY <1>0, <1>2, OpKeepsLoads
<1>3. ASSUME NEW k \in Loaders, LoadStep(k), Watch PROVE LoadFits(l)' /\ Honest(l)'
  <2>1. CASE k = l
    <3>1. ASSUME NEW id \in Ids, StartLoad(l, id) PROVE LoadFits(l)' /\ Honest(l)'
      BY <1>3, <3>1, StartFits
    <3>2. ASSUME ReadNext(l) PROVE LoadFits(l)' /\ Honest(l)'
      BY <1>0, <1>3, <3>2, ReadFits
    <3>3. ASSUME OpenFound(l) PROVE LoadFits(l)' /\ Honest(l)'
      BY <1>0, <1>3, <3>3, OpenFits
    <3>. QED
      BY <1>3, <2>1, <3>1, <3>2, <3>3 DEF LoadStep
  <2>2. CASE k # l
    <3>1. load'[l] = load[l] /\ UNCHANGED <<disk, op, ops, overlapped>>
      BY <1>0, <1>3, <2>2 DEF LoadStep, StartLoad, ReadNext, OpenFound, Answer
    <3>. QED
      BY <1>0, <1>3, <3>1, LoadWaits
  <2>. QED
    BY <2>1, <2>2
<1>4. CASE UNCHANGED vars
  BY <1>0, <1>4, LoadWaits DEF vars
<1>. QED
  BY <1>1, <1>2, <1>3, <1>4 DEF Next

\* A load by the runtime (load_manifest_by_id), which lists the names, reads
\* file after file and opens the one it was after once more, answers as on
\* files that stand still when they do; whatever the workbench does meanwhile,
\* it loads no manifest that was active at no moment of the load, and until two
\* operations overlap it misses none that was active throughout.
THEOREM LoadsAreHonestCorrect == Spec => []LoadsAreHonest
<1>1. Init => LoadInv
  BY DEF Init, LoadInv, LoadsAreHonest, LoadFits, Honest, NoLoad
<1>2. LoadInv => LoadsAreHonest
  BY DEF LoadInv
<1>. QED
  BY <1>1, <1>2, InvariantStep, LoadInvStep, InvariantCorrect, PTL DEF Spec

=============================================================================
