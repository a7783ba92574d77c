---------------------------- MODULE StoreProofs -----------------------------
(***************************************************************************)
(* What is stored keeps its promises, for any artifacts, writes, failing   *)
(* steps, handlers and events: backups are whole and restores all or       *)
(* nothing, records stay readable while outputs move, and the verdict on   *)
(* the audit chain has a cause.                                            *)
(***************************************************************************)
EXTENDS Backup, Artifacts, AuditChain, FiniteSetTheorems, TLAPS

(* Backup and restore. *)

Place == [from : {"nowhere", "old", "fresh", "backup"}, holds : SUBSET Files]

Copying == [at : {"copy"}, snapshot : Place, todo : SUBSET Files, copied : Place]

RestoreSteps == {"move database", "move directory", "place database", "place directory"}

Restoring == [at : RestoreSteps, db : Place, directory : Place]

PlacesAndTasks ==
    /\ db \in Place /\ directory \in Place
    /\ backup \in [db : Place, directory : Place]
    /\ task \in {Idle} \cup Copying \cup Restoring
    /\ log \in {"nowhere", "old", "fresh", "backup"}

(***************************************************************************)
(* Until a backup is published nothing was restored, so that the rows      *)
(* refer to files that are there; and what the copied database refers to   *)
(* is copied or still to be copied.                                        *)
(***************************************************************************)
BackupInvariant ==
    /\ PlacesAndTasks
    /\ backup = NoBackup => db.holds \subseteq directory.holds /\ task \notin Restoring
    /\ task \in Copying =>
          /\ backup = NoBackup
          /\ task.snapshot.holds \subseteq task.copied.holds \cup task.todo
    /\ BackupIsWhole

\* A task's step tells whether it copies or restores.
LEMMA TaskShapes ==
    ASSUME NEW t \in {Idle} \cup Copying \cup Restoring
    PROVE  /\ t.at = "copy" <=> t \in Copying
           /\ t.at \in RestoreSteps <=> t \in Restoring
           /\ t = Idle <=> t \notin Copying \cup Restoring
<1>1. t = Idle => t.at = "idle"
    BY DEF Idle
<1>2. t \in Copying => t.at = "copy"
    BY DEF Copying
<1>3. t \in Restoring => t.at \in RestoreSteps
    BY DEF Restoring
<1> QED
    BY <1>1, <1>2, <1>3 DEF RestoreSteps

\* No task is of two kinds.
LEMMA TaskKinds ==
    Idle \notin Copying /\ Idle \notin Restoring /\ Copying \cap Restoring = {}
BY DEF Copying, Restoring, RestoreSteps, Idle

\* Operations on directories and databases give directories and databases.
LEMMA Places ==
    /\ Missing \in Place /\ Empty \in Place
    /\ NoBackup \in [db : Place, directory : Place]
    /\ \A p \in Place, f \in Files :
          /\ [p EXCEPT !.holds = @ \cup {f}] \in Place
          /\ [p EXCEPT !.holds = @ \cup {f}].holds = p.holds \cup {f}
    /\ \A p \in Place : /\ [p EXCEPT !.holds = {}] \in Place
                        /\ [p EXCEPT !.holds = {}].holds = {}
                        /\ [p EXCEPT !.from = "backup"] \in Place
<1>1. Missing \in Place /\ Empty \in Place
    BY DEF Missing, Empty, Place
<1>2. NoBackup \in [db : Place, directory : Place]
    BY <1>1 DEF NoBackup
<1>3. \A p \in Place, h \in SUBSET Files :
          [p EXCEPT !.holds = h] \in Place /\ [p EXCEPT !.holds = h].holds = h
    BY DEF Place
<1>4. \A p \in Place : p.holds \in SUBSET Files /\ [p EXCEPT !.from = "backup"] \in Place
    BY DEF Place
<1>5. \A p \in Place, f \in Files : p.holds \cup {f} \in SUBSET Files
    BY <1>4
<1> QED
    BY <1>1, <1>2, <1>3, <1>4, <1>5

(***************************************************************************)
(* The API and the making of a backup.                                     *)
(***************************************************************************)
LEMMA BackupIsMade ==
    ASSUME BackupInvariant, RunApi \/ MakeBackup
    PROVE  BackupInvariant'
<1> USE DEF BackupInvariant, PlacesAndTasks, BackupIsWhole, restoreHistory
<1>1. ASSUME StartApi PROVE BackupInvariant'
    BY <1>1, Places DEF StartApi, OpenDatabase, Missing, Empty
<1>2. ASSUME StopApi PROVE BackupInvariant'
    BY <1>2 DEF StopApi, Place
<1>3. ASSUME NEW f \in Files, WriteFile(f) PROVE BackupInvariant'
    <2>1. /\ directory' \in Place /\ directory'.holds = directory.holds \cup {f}
          /\ UNCHANGED <<db, log, backup, task>>
        BY <1>3, Places DEF WriteFile
    <2> QED
        BY <2>1
<1>4. ASSUME NEW f \in Files, WriteRow(f) PROVE BackupInvariant'
    <2>1. /\ db' \in Place /\ db'.holds = db.holds \cup {f}
          /\ f \in directory.holds
          /\ UNCHANGED <<directory, log, backup, task>>
        BY <1>4, Places DEF WriteRow
    <2> QED
        BY <2>1
<1>5. ASSUME VacuumInto PROVE BackupInvariant'
    <2>1. /\ task' = [at |-> "copy", snapshot |-> db, todo |-> directory.holds,
                      copied |-> [directory EXCEPT !.holds = {}]]
          /\ backup = NoBackup
          /\ UNCHANGED <<db, directory, backup>>
          /\ log' \in {"nowhere", log}
        BY <1>5 DEF VacuumInto, OpenDatabase
    <2>2. directory.holds \in SUBSET Files
        BY DEF Place
    <2>3. task' \in Copying /\ task' \notin Restoring
        BY <2>1, <2>2, Places DEF Copying, Restoring, RestoreSteps
    <2>4. task'.snapshot.holds \subseteq task'.copied.holds \cup task'.todo
        BY <2>1
    <2> QED
        BY <2>1, <2>3, <2>4
<1>6. ASSUME CopyFile PROVE BackupInvariant'
    <2>1. task \in Copying
        BY <1>6, TaskShapes DEF CopyFile
    <2>2. PICK f \in task.todo :
              task' = [task EXCEPT !.todo = @ \ {f}, !.copied.holds = @ \cup {f}]
        BY <1>6 DEF CopyFile
    <2>3. f \in Files
        BY <2>1, <2>2 DEF Copying
    <2>4. task' = [at |-> "copy", snapshot |-> task.snapshot, todo |-> task.todo \ {f},
                   copied |-> [task.copied EXCEPT !.holds = @ \cup {f}]]
        BY <2>1, <2>2 DEF Copying
    <2>5. task.snapshot \in Place /\ task.todo \subseteq Files /\ task.copied \in Place
        BY <2>1 DEF Copying
    <2>6. /\ [task.copied EXCEPT !.holds = @ \cup {f}] \in Place
          /\ [task.copied EXCEPT !.holds = @ \cup {f}].holds = task.copied.holds \cup {f}
        BY <2>3, <2>5, Places
    <2>7. task' \in Copying /\ task' \notin Restoring
        BY <2>4, <2>5, <2>6 DEF Copying, Restoring, RestoreSteps
    <2>8. task'.snapshot.holds \subseteq task'.copied.holds \cup task'.todo
        BY <2>1, <2>4, <2>6
    <2> QED
        BY <1>6, <2>1, <2>7, <2>8 DEF CopyFile
<1>7. ASSUME PublishBackup PROVE BackupInvariant'
    <2>1. task \in Copying /\ task.todo = {}
        BY <1>7, TaskShapes DEF PublishBackup
    <2>2. /\ backup' = [db |-> task.snapshot, directory |-> task.copied]
          /\ task' = Idle
          /\ UNCHANGED <<db, directory, log>>
        BY <1>7 DEF PublishBackup, BackedUp
    <2>3. /\ task.snapshot \in Place /\ task.copied \in Place
          /\ task.snapshot.holds \subseteq task.copied.holds
        BY <2>1 DEF Copying
    <2>4. Idle \notin Copying /\ Idle \notin Restoring
        BY DEF Idle, Copying, Restoring
    <2> QED
        BY <2>1, <2>2, <2>3, <2>4
<1>8. ASSUME TaskIsKilled PROVE BackupInvariant'
    <2>1. Idle \notin Copying /\ Idle \notin Restoring
        BY DEF Idle, Copying, Restoring
    <2> QED
        BY <1>8, <2>1 DEF TaskIsKilled, Unmoved
<1> QED
    BY <1>1, <1>2, <1>3, <1>4, <1>5, <1>6, <1>7, <1>8 DEF RunApi, MakeBackup

(***************************************************************************)
(* A restore starts from a published backup, which it leaves as it is.     *)
(***************************************************************************)
LEMMA BackupIsRestored ==
    ASSUME BackupInvariant, RestoreBackup
    PROVE  BackupInvariant'
<1> DEFINE Restores ==
        /\ backup # NoBackup /\ UNCHANGED <<backup, log>>
        /\ db' \in Place /\ directory' \in Place
        /\ task' = Idle \/ task' \in Restoring
<1> USE DEF BackupInvariant, PlacesAndTasks, BackupIsWhole
<1>1. ASSUME Restores PROVE BackupInvariant'
    <2>1. task' \notin Copying
        BY <1>1, TaskKinds
    <2> QED
        BY <1>1, <2>1
<1>2. ASSUME StartRestoring PROVE Restores
    <2>1. \A step \in RestoreSteps : [at |-> step, db |-> Missing, directory |-> Missing] \in Restoring
        BY Places DEF Restoring
    <2>2. PICK force \in BOOLEAN :
              task' = [at |-> IF force THEN "move database" ELSE "place database",
                       db |-> Missing, directory |-> Missing]
        BY <1>2 DEF StartRestoring
    <2>3. task' \in Restoring
        BY <2>1, <2>2 DEF RestoreSteps
    <2> QED
        BY <1>2, <2>3 DEF StartRestoring
<1>3. ASSUME task.at \in RestoreSteps
      PROVE  /\ backup # NoBackup /\ task \in Restoring
             /\ task.db \in Place /\ task.directory \in Place
    BY <1>3, TaskShapes DEF Restoring
<1>4. \A step \in RestoreSteps, p \in Place : task \in Restoring =>
          /\ [task EXCEPT !.at = step] \in Restoring
          /\ [task EXCEPT !.at = step, !.db = p] \in Restoring
          /\ [task EXCEPT !.at = step, !.directory = p] \in Restoring
    BY DEF Restoring
<1>5. ASSUME MoveDatabase PROVE Restores
    <2>1. backup # NoBackup /\ task \in Restoring
        BY <1>3, <1>5 DEF MoveDatabase, RestoreSteps
    <2>2. [task EXCEPT !.at = "move directory", !.db = db] \in Restoring
        BY <1>4, <2>1 DEF RestoreSteps
    <2>3. UNCHANGED <<backup, log, directory>>
        BY <1>5 DEF MoveDatabase, Unmoved
    <2>4. db' \in {db, Missing} /\ task' \in {Idle, [task EXCEPT !.at = "move directory", !.db = db]}
        BY <1>5 DEF MoveDatabase
    <2> QED
        BY <2>1, <2>2, <2>3, <2>4, Places
<1>6. ASSUME MoveDirectory PROVE Restores
    <2>1. backup # NoBackup /\ task \in Restoring /\ task.db \in Place
        BY <1>3, <1>6 DEF MoveDirectory, RestoreSteps
    <2>2. [task EXCEPT !.at = "place database", !.directory = directory] \in Restoring
        BY <1>4, <2>1 DEF RestoreSteps
    <2>3. UNCHANGED <<backup, log>>
        BY <1>6 DEF MoveDirectory, Unmoved
    <2>4. /\ db' \in {db, task.db} /\ directory' \in {directory, Missing}
          /\ task' \in {Idle, [task EXCEPT !.at = "place database", !.directory = directory]}
        BY <1>6 DEF MoveDirectory
    <2> QED
        BY <2>1, <2>2, <2>3, <2>4, Places
<1>7. ASSUME PlaceDatabase PROVE Restores
    <2>1. /\ backup # NoBackup /\ task \in Restoring
          /\ task.db \in Place /\ task.directory \in Place
        BY <1>3, <1>7 DEF PlaceDatabase, RestoreSteps
    <2>2. [task EXCEPT !.at = "place directory"] \in Restoring
        BY <1>4, <2>1, Places DEF RestoreSteps
    <2>3. [backup.db EXCEPT !.from = "backup"] \in Place
        BY Places
    <2> QED
        BY <1>7, <2>1, <2>2, <2>3, Places DEF PlaceDatabase, PutBack, Unmoved
<1>8. ASSUME PlaceDirectory PROVE Restores
    <2>1. /\ backup # NoBackup /\ task.db \in Place /\ task.directory \in Place
        BY <1>3, <1>8 DEF PlaceDirectory, RestoreSteps
    <2>2. [backup.directory EXCEPT !.from = "backup"] \in Place
        BY Places
    <2> QED
        BY <1>8, <2>1, <2>2, Places DEF PlaceDirectory, PutBack, Unmoved
<1> HIDE DEF Restores
<1> QED
    BY <1>1, <1>2, <1>5, <1>6, <1>7, <1>8 DEF RestoreBackup

\* A backup that is listed is whole, in every reachable state.
LEMMA BackupInvariantHolds == BackupSpec => []BackupInvariant
<1>1. BackupInit => BackupInvariant
    <2> SUFFICES ASSUME BackupInit PROVE BackupInvariant
        OBVIOUS
    <2>1. PlacesAndTasks
        BY Places DEF BackupInit, PlacesAndTasks, Place
    <2>2. BackupIsWhole
        BY DEF BackupInit, BackupIsWhole, NoBackup
    <2> QED
        BY <2>1, <2>2, TaskKinds DEF BackupInit, BackupInvariant
<1>2. ASSUME BackupInvariant, UNCHANGED backupVars PROVE BackupInvariant'
    BY <1>2 DEF backupVars, BackupInvariant, PlacesAndTasks, BackupIsWhole
<1>3. BackupInvariant /\ [BackupNext]_backupVars => BackupInvariant'
    BY <1>2, BackupIsMade, BackupIsRestored DEF BackupNext
<1> QED
    BY <1>1, <1>3, PTL DEF BackupSpec

(***************************************************************************)
(* Databases, directories and the log come from where they may.            *)
(***************************************************************************)
THEOREM BackupTypes == BackupSpec => []BackupTypeOK
<1>1. BackupInvariant => BackupTypeOK
    BY DEF BackupInvariant, PlacesAndTasks, BackupTypeOK, Place
<1> QED
    BY <1>1, BackupInvariantHolds, PTL

(***************************************************************************)
(* Every artifact that the database of a published backup refers to is in  *)
(* it, although the API writes while it is made (main.go:104-112).         *)
(***************************************************************************)
THEOREM BackupsAreWhole == BackupSpec => []BackupIsWhole
<1>1. BackupInvariant => BackupIsWhole
    BY DEF BackupInvariant
<1> QED
    BY <1>1, BackupInvariantHolds, PTL

-----------------------------------------------------------------------------
(***************************************************************************)
(* What a restore under way, or the last one, has done to what it found:   *)
(* each stage knows what was moved aside, and nothing has failed before    *)
(* the last stage it ran.                                                  *)
(***************************************************************************)
Aside(place) == place \in {Missing} \cup aside

Progress ==
    /\ task \in Restoring => failures = 0 /\ ~killed
    /\ task.at = "move database" =>
          db = before.db /\ directory = before.directory
    /\ task.at = "move directory" =>
          db = Missing /\ directory = before.directory /\ task.db = before.db /\ Aside(before.db)
    /\ task.at \in {"place database", "place directory"} =>
          /\ directory = Missing
          /\ task.db = before.db /\ task.directory = before.directory
          /\ Aside(before.db) /\ Aside(before.directory)
    /\ task.at = "place directory" => db.from = "backup"
    /\ task = Idle /\ ~killed /\ failures <= 1 =>
          \/ db = before.db /\ directory = before.directory
          \/ {db.from, directory.from} = {"backup"}
    /\ {before.db, before.directory} \subseteq {Missing, db, directory} \cup aside

(***************************************************************************)
(* The log belongs to the database, unless a restore began with one beside *)
(* it; and the API is down from the beginning of a restore until the       *)
(* operators start it.                                                     *)
(***************************************************************************)
RestoreInvariant ==
    /\ BackupInvariant
    /\ mixed => hot
    /\ log \in {"nowhere", db.from} \/ hot
    /\ task \in Restoring => ~up /\ (log = "nowhere" \/ hot)
    /\ before # NoBackup => ~up /\ backup # NoBackup /\ Progress

(***************************************************************************)
(* The API and the backup: neither touches what a restore found, and the   *)
(* API's own start forgets it.                                             *)
(***************************************************************************)
LEMMA RestoreIsLeftAlone ==
    ASSUME RestoreInvariant, RunApi \/ VacuumInto \/ CopyFile \/ PublishBackup
    PROVE  RestoreInvariant'
<1>0. BackupInvariant /\ BackupInvariant'
    BY BackupIsMade DEF RestoreInvariant, MakeBackup
<1>1. /\ db \in Place /\ directory \in Place /\ task \in {Idle} \cup Copying \cup Restoring
    BY <1>0 DEF BackupInvariant, PlacesAndTasks
<1>2. CASE StartApi
    <2>1. /\ before' = NoBackup /\ log' = "nowhere" /\ task' = task /\ hot' = hot
          /\ mixed' => mixed \/ log \notin {"nowhere", db.from}
        BY <1>2 DEF StartApi, OpenDatabase
    <2>2. task \notin Restoring
        BY <1>1, <1>2, TaskShapes, TaskKinds DEF StartApi, RestoreRuns
    <2> QED
        BY <1>0, <2>1, <2>2 DEF RestoreInvariant
<1>3. CASE StopApi
    <2>1. /\ up /\ log' \in {"nowhere", db.from} /\ UNCHANGED <<db, task, before, hot, mixed>>
        BY <1>3 DEF StopApi, restoreHistory
    <2> QED
        BY <1>0, <2>1 DEF RestoreInvariant
<1>4. CASE \E f \in Files : WriteFile(f) \/ WriteRow(f)
    <2>1. /\ up /\ UNCHANGED <<log, task, before, hot, mixed, up>>
        BY <1>4 DEF WriteFile, WriteRow, restoreHistory
    <2>2. db'.from = db.from
        BY <1>1, <1>4 DEF WriteFile, WriteRow, Place
    <2> QED
        BY <1>0, <2>1, <2>2 DEF RestoreInvariant
<1>5. CASE VacuumInto
    <2>1. /\ backup = NoBackup /\ UNCHANGED <<db, before, hot>>
          /\ task'.at = "copy"
          /\ \/ log' = log /\ mixed' = mixed
             \/ log' = "nowhere" /\ (mixed' => mixed \/ log \notin {"nowhere", db.from})
        BY <1>5 DEF VacuumInto, OpenDatabase, restoreHistory
    <2>2. before' = NoBackup
        BY <2>1 DEF RestoreInvariant
    <2>3. task' \notin Restoring
        BY <2>1 DEF Restoring, RestoreSteps
    <2> QED
        BY <1>0, <2>1, <2>2, <2>3 DEF RestoreInvariant
<1>6. CASE CopyFile \/ PublishBackup
    <2>1. task \in Copying /\ UNCHANGED <<db, log, before, hot, mixed>>
        BY <1>1, <1>6, TaskShapes DEF CopyFile, PublishBackup, restoreHistory
    <2>2. backup = NoBackup /\ before' = NoBackup
        BY <1>0, <2>1 DEF BackupInvariant, RestoreInvariant
    <2>3. task' \notin Restoring
        <3>1. CASE CopyFile
            BY <2>1, <3>1, TaskShapes DEF CopyFile, Copying, Restoring, RestoreSteps
        <3>2. CASE PublishBackup
            BY <3>2, TaskKinds DEF PublishBackup
        <3> QED
            BY <1>6, <3>1, <3>2
    <2> QED
        BY <1>0, <2>1, <2>2, <2>3 DEF RestoreInvariant
<1> QED
    BY <1>2, <1>3, <1>4, <1>5, <1>6 DEF RunApi

(***************************************************************************)
(* What an undo does: both halves are back unless one of them failed too,  *)
(* and that counts as another failure.                                     *)
(***************************************************************************)
LEMMA PutBackRestores ==
    ASSUME PutBack(1), failures = 0, directory = Missing,
           task.db = before.db, task.directory = before.directory,
           Aside(before.db), Aside(before.directory)
    PROVE  /\ failures' <= 1 => db' = before.db /\ directory' = before.directory
           /\ {before.db, before.directory} \subseteq {Missing, db', directory'} \cup aside'
<1>1. PICK lost \in SUBSET {"database", "directory"} :
          /\ Fail(1 + Cardinality(lost))
          /\ db' \in IF "database" \in lost THEN {Missing, db} ELSE {task.db}
          /\ directory' \in IF "directory" \in lost THEN {Missing, directory} ELSE {task.directory}
          /\ aside' = aside \ ((IF "database" \in lost THEN {} ELSE {task.db})
                               \cup (IF "directory" \in lost THEN {} ELSE {task.directory}))
    BY DEF PutBack
<1>2. lost # {} => Cardinality(lost) \in Nat /\ Cardinality(lost) # 0
    <2>1. IsFiniteSet({"database", "directory"})
        <3>1. {"database", "directory"} = ({} \cup {"database"}) \cup {"directory"}
            OBVIOUS
        <3>2. IsFiniteSet({} \cup {"database"})
            BY FS_EmptySet, FS_AddElement
        <3> QED
            BY <3>1, <3>2, FS_AddElement
    <2>2. IsFiniteSet(lost)
        BY <2>1, FS_Subset
    <2> QED
        BY <2>2, FS_CardinalityType, FS_EmptySet
<1>3. failures' <= 1 => lost = {}
    BY <1>1, <1>2 DEF Fail
<1>4. failures' <= 1 => db' = before.db /\ directory' = before.directory
    BY <1>1, <1>3
<1>5. {before.db, before.directory} \subseteq {Missing, db', directory'} \cup aside'
    BY <1>1 DEF Aside
<1> QED
    BY <1>4, <1>5

(***************************************************************************)
(* A step of a restore.                                                    *)
(***************************************************************************)
LEMMA RestoreAdvances ==
    ASSUME RestoreInvariant, RestoreBackup \/ TaskIsKilled
    PROVE  RestoreInvariant'
<1>0. BackupInvariant /\ BackupInvariant'
    BY BackupIsMade, BackupIsRestored DEF RestoreInvariant, MakeBackup
<1>1. task \in {Idle} \cup Copying \cup Restoring
    BY <1>0 DEF BackupInvariant, PlacesAndTasks
<1>2. CASE StartRestoring
    <2>1. PICK force \in BOOLEAN :
              /\ force \/ {db, directory} = {Missing}
              /\ task' = [at |-> IF force THEN "move database" ELSE "place database",
                          db |-> Missing, directory |-> Missing]
        BY <1>2 DEF StartRestoring
    <2>2. /\ ~up /\ backup # NoBackup /\ before' = [db |-> db, directory |-> directory]
          /\ failures' = 0 /\ ~killed' /\ (hot' <=> (hot \/ log # "nowhere"))
          /\ UNCHANGED <<db, directory, log, up, aside, backup, mixed>>
        BY <1>2 DEF StartRestoring
    <2>3. ~force => before' = NoBackup
        BY <2>1, <2>2 DEF NoBackup
    <2>4. force => task'.at = "move database" /\ task' # Idle
        BY <2>1 DEF Idle
    <2>5. before'.db = db /\ before'.directory = directory
        BY <2>2
    <2>6. force => Progress'
        BY <2>1, <2>2, <2>4, <2>5 DEF Progress
    <2> QED
        BY <1>0, <2>2, <2>3, <2>6 DEF RestoreInvariant
<1>3. ASSUME task.at \in RestoreSteps, UNCHANGED <<log, up, backup, before, hot, mixed>>,
             before # NoBackup => Progress'
      PROVE  RestoreInvariant'
    <2>1. task \in Restoring
        BY <1>1, <1>3, TaskShapes
    <2> QED
        BY <1>0, <1>3, <2>1 DEF RestoreInvariant
<1>4. ASSUME task.at \in RestoreSteps, before # NoBackup
      PROVE  /\ failures = 0 /\ ~killed /\ task \in Restoring /\ Progress
    BY <1>1, <1>4, TaskShapes DEF RestoreInvariant, Progress
<1>5. Idle.at = "idle" /\ Idle \notin Restoring
    BY TaskKinds DEF Idle
<1>7. CASE MoveDatabase
    <2>1. /\ task.at = "move database" /\ UNCHANGED <<directory, killed>>
          /\ UNCHANGED <<log, up, backup, before, hot, mixed>>
        BY <1>7 DEF MoveDatabase, Unmoved
    <2>2. ASSUME before # NoBackup PROVE Progress'
        <3>1. Progress /\ failures = 0 /\ ~killed /\ task \in Restoring
            BY <1>4, <2>1, <2>2 DEF RestoreSteps
        <3>2. CASE Fail(1) /\ task' = Idle /\ UNCHANGED <<db, aside>>
            BY <1>5, <2>1, <3>1, <3>2 DEF Progress
        <3>3. CASE /\ db' = Missing
                   /\ aside' = aside \cup ({db} \ {Missing})
                   /\ task' = [task EXCEPT !.at = "move directory", !.db = db]
                   /\ UNCHANGED failures
            <4>1. task'.at = "move directory" /\ task'.db = db
                BY <3>1, <3>3 DEF Restoring
            <4>2. task' # Idle
                BY <1>5, <4>1
            <4> QED
                BY <2>1, <3>1, <3>3, <4>1, <4>2 DEF Progress, Aside
        <3> QED
            BY <1>7, <3>2, <3>3 DEF MoveDatabase
    <2> QED
        BY <1>3, <2>1, <2>2 DEF RestoreSteps
<1>8. CASE MoveDirectory
    <2>1. /\ task.at = "move directory" /\ UNCHANGED killed
          /\ UNCHANGED <<log, up, backup, before, hot, mixed>>
        BY <1>8 DEF MoveDirectory, Unmoved
    <2>2. ASSUME before # NoBackup PROVE Progress'
        <3>1. Progress /\ failures = 0 /\ ~killed /\ task \in Restoring
            BY <1>4, <2>1, <2>2 DEF RestoreSteps
        <3>2. CASE /\ Fail(1)
                   /\ db' = task.db /\ aside' = aside \ {task.db}
                   /\ task' = Idle
                   /\ UNCHANGED directory
            BY <1>5, <2>1, <3>1, <3>2 DEF Progress, Aside
        <3>3. CASE Fail(2) /\ task' = Idle /\ UNCHANGED <<db, directory, aside>>
            <4>1. failures' = 2 /\ ~(failures' <= 1)
                BY <3>1, <3>3 DEF Fail
            <4> QED
                BY <1>5, <2>1, <3>1, <3>3, <4>1 DEF Progress, Aside
        <3>4. CASE /\ directory' = Missing
                   /\ aside' = aside \cup ({directory} \ {Missing})
                   /\ task' = [task EXCEPT !.at = "place database", !.directory = directory]
                   /\ UNCHANGED <<db, failures>>
            <4>1. task'.at = "place database" /\ task'.db = task.db /\ task'.directory = directory
                BY <3>1, <3>4 DEF Restoring
            <4>2. task' # Idle
                BY <1>5, <4>1
            <4> QED
                BY <2>1, <3>1, <3>4, <4>1, <4>2 DEF Progress, Aside
        <3> QED
            BY <1>8, <3>2, <3>3, <3>4 DEF MoveDirectory
    <2> QED
        BY <1>3, <2>1, <2>2 DEF RestoreSteps
<1>9. CASE PlaceDatabase
    <2>1. /\ task.at = "place database" /\ UNCHANGED killed
          /\ UNCHANGED <<log, up, backup, before, hot, mixed>>
        BY <1>9 DEF PlaceDatabase, Unmoved
    <2>2. ASSUME before # NoBackup PROVE Progress'
        <3>1. Progress /\ failures = 0 /\ ~killed /\ task \in Restoring
            BY <1>4, <2>1, <2>2 DEF RestoreSteps
        <3>2. CASE PutBack(1) /\ task' = Idle
            <4>1. /\ failures' <= 1 => db' = before.db /\ directory' = before.directory
                  /\ {before.db, before.directory} \subseteq {Missing, db', directory'} \cup aside'
                BY <2>1, <3>1, <3>2, PutBackRestores DEF Progress
            <4> QED
                BY <1>5, <2>1, <3>2, <4>1 DEF Progress
        <3>3. CASE /\ db' = [backup.db EXCEPT !.from = "backup"]
                   /\ task' = [task EXCEPT !.at = "place directory"]
                   /\ UNCHANGED <<directory, aside, failures>>
            <4>1. /\ task'.at = "place directory" /\ task'.db = task.db
                  /\ task'.directory = task.directory
                BY <3>1, <3>3 DEF Restoring
            <4>2. db'.from = "backup" /\ task' # Idle
                BY <1>0, <1>5, <3>3, <4>1 DEF BackupInvariant, PlacesAndTasks, Place
            <4> QED
                BY <2>1, <3>1, <3>3, <4>1, <4>2 DEF Progress, Aside
        <3> QED
            BY <1>9, <3>2, <3>3 DEF PlaceDatabase
    <2> QED
        BY <1>3, <2>1, <2>2 DEF RestoreSteps
<1>10. CASE PlaceDirectory
    <2>1. /\ task.at = "place directory" /\ UNCHANGED killed /\ task' = Idle
          /\ UNCHANGED <<log, up, backup, before, hot, mixed>>
        BY <1>10 DEF PlaceDirectory, Unmoved
    <2>2. ASSUME before # NoBackup PROVE Progress'
        <3>1. Progress /\ failures = 0 /\ ~killed /\ task \in Restoring
            BY <1>4, <2>1, <2>2 DEF RestoreSteps
        <3>2. CASE PutBack(1)
            <4>1. /\ failures' <= 1 => db' = before.db /\ directory' = before.directory
                  /\ {before.db, before.directory} \subseteq {Missing, db', directory'} \cup aside'
                BY <2>1, <3>1, <3>2, PutBackRestores DEF Progress
            <4> QED
                BY <1>5, <2>1, <4>1 DEF Progress
        <3>3. CASE /\ directory' = [backup.directory EXCEPT !.from = "backup"]
                   /\ UNCHANGED <<db, aside, failures>>
            <4>1. directory'.from = "backup"
                BY <1>0, <3>3 DEF BackupInvariant, PlacesAndTasks, Place
            <4> QED
                BY <1>5, <2>1, <3>1, <3>3, <4>1 DEF Progress, Aside
        <3> QED
            BY <1>10, <3>2, <3>3 DEF PlaceDirectory
    <2> QED
        BY <1>3, <2>1, <2>2 DEF RestoreSteps
<1>11. CASE TaskIsKilled
    <2>1. /\ task' = Idle /\ (killed' <=> (killed \/ RestoreRuns)) /\ task # Idle
          /\ UNCHANGED <<db, directory, aside, failures, log, up, backup, before, hot, mixed>>
        BY <1>11 DEF TaskIsKilled, Unmoved
    <2>2. ASSUME before # NoBackup PROVE Progress'
        <3>1. backup # NoBackup /\ Progress
            BY <2>2 DEF RestoreInvariant
        <3>2. task \notin Copying
            BY <1>0, <3>1 DEF BackupInvariant
        <3>3. killed'
            BY <1>1, <2>1, <3>2, TaskShapes DEF RestoreRuns
        <3> QED
            BY <1>5, <2>1, <3>1, <3>3 DEF Progress
    <2> QED
        BY <1>0, <1>5, <2>1, <2>2 DEF RestoreInvariant
<1> QED
    BY <1>2, <1>7, <1>8, <1>9, <1>10, <1>11 DEF RestoreBackup

(***************************************************************************)
(* The invariant of the restore holds throughout.                          *)
(***************************************************************************)
LEMMA RestoreInvariantHolds == BackupSpec => []RestoreInvariant
<1>1. BackupInit => RestoreInvariant
    <2> SUFFICES ASSUME BackupInit PROVE RestoreInvariant
        OBVIOUS
    <2>1. PlacesAndTasks
        BY Places DEF BackupInit, PlacesAndTasks, Place
    <2>2. BackupInvariant
        BY <2>1, TaskKinds DEF BackupInit, BackupInvariant, BackupIsWhole, NoBackup
    <2> QED
        BY <2>2, TaskKinds DEF BackupInit, RestoreInvariant
<1>2. ASSUME RestoreInvariant, UNCHANGED backupVars PROVE RestoreInvariant'
    BY <1>2, ZenonT(40) DEF backupVars, RestoreInvariant, BackupInvariant, PlacesAndTasks, BackupIsWhole,
                Progress, Aside
<1>3. RestoreInvariant /\ [BackupNext]_backupVars => RestoreInvariant'
    BY <1>2, RestoreIsLeftAlone, RestoreAdvances DEF BackupNext, MakeBackup
<1> QED
    BY <1>1, <1>3, PTL DEF BackupSpec

(***************************************************************************)
(* A restore that is not killed, and whose undoing does not fail too,      *)
(* leaves the backup at both paths or what was there before; what was      *)
(* there is on the disk in any case; and no log is applied to a database   *)
(* it does not belong to unless one lay beside the path when a restore     *)
(* began (main.go:283-315).                                                *)
(***************************************************************************)
THEOREM RestoresAreAllOrNothing == BackupSpec => []RestoreIsAllOrNothing
<1>1. RestoreInvariant => RestoreIsAllOrNothing
    BY DEF RestoreInvariant, Progress, RestoreIsAllOrNothing
<1> QED
    BY <1>1, RestoreInvariantHolds, PTL

-----------------------------------------------------------------------------
(* Outputs and their migration. *)

Contents == 0 .. MaxWrites

Moving == {"read", "inspect", "copy", "verify"}

Tool == [at : Moving \cup {"fetch"}, todo : SUBSET Outputs, listed : [Outputs -> Contents],
         force : BOOLEAN, quiet : BOOLEAN, output : Outputs \cup {0}, data : Contents]

Result == [at : {"record"}, output : Outputs, content : Contents]

OutputsAreTyped ==
    /\ local \in [Outputs -> Contents] /\ remote \in [Outputs -> Contents]
    /\ restored \in [Outputs -> Contents] /\ records \in [Outputs -> Contents]
    /\ manifest \in [Outputs -> Contents]
    /\ backend \in {"local", "s3", "restored"}
    /\ result \in {Idle} \cup Result
    /\ tool \in {Idle} \cup Tool
    /\ written \in Contents
    /\ \A o \in Outputs : records[o] <= written
    /\ result # Idle => result.content <= written

(***************************************************************************)
(* What is up to date: after a write of the API, the store it writes to    *)
(* and nothing else; the bucket and the manifest together, from the        *)
(* directory; and the restored directory last.                             *)
(***************************************************************************)
Single == {{"local"}, {"s3"}, {"restored"}}

FreshIsClosed ==
    /\ fresh \in Single \cup {{"local", "s3", "manifest"}, {"local", "s3", "manifest", "restored"}}
    /\ tool # Idle /\ tool.quiet => fresh \notin Single \/ (fresh = {"local"} /\ tool.at # "fetch")
    /\ tool # Idle /\ ~tool.quiet => fresh \in Single

(***************************************************************************)
(* A run during which the API writes nothing has seen all that the         *)
(* directory has, and what it has finished is where it goes.               *)
(***************************************************************************)
RunIsFaithful ==
    /\ tool.at \in Moving => /\ tool.todo \subseteq Ids(local)
                             /\ tool.at # "read" => tool.output \in Ids(local)
    /\ tool.at \in Moving /\ tool.quiet =>
          /\ tool.listed = local
          /\ tool.at # "read" => tool.data = local[tool.output]
          /\ \A o \in Ids(local) : \/ o \in tool.todo
                                   \/ tool.at # "read" /\ o = tool.output
                                   \/ remote[o] = local[o]
    /\ tool.at = "fetch" /\ tool.quiet =>
          /\ tool.listed = manifest
          /\ \A o \in Ids(manifest) \ tool.todo : restored[o] = manifest[o]

\* The record of o, and the one that is about to be committed, can be read in a store.
Covers(store) ==
    \A o \in Outputs : /\ store[o] >= records[o]
                       /\ result # Idle /\ result.output = o => store[o] >= result.content

(***************************************************************************)
(* While the documented order is kept, the API's store is up to date, what *)
(* is up to date covers the records, and no run overwrites an object of a  *)
(* bucket that is up to date but with what the directory has.              *)
(***************************************************************************)
OrderIsKept ==
    /\ backend \in fresh
    /\ "local" \in fresh => Covers(local)
    /\ "s3" \in fresh => Covers(remote) /\ Ids(local) \subseteq Ids(remote)
    /\ "restored" \in fresh => Covers(restored)
    /\ "manifest" \in fresh => Covers(manifest)
    /\ tool.at \in Moving /\ tool.force => backend # "s3"
    /\ tool.at = "fetch" => backend # "restored"
    /\ tool.at = "copy" /\ ~tool.force => "s3" \notin fresh

ArtifactsInvariant ==
    /\ OutputsAreTyped
    /\ FreshIsClosed
    /\ RunIsFaithful
    /\ covered => OrderIsKept

(***************************************************************************)
(* Where a run of the tool is.                                             *)
(***************************************************************************)
LEMMA ToolShapes ==
    ASSUME OutputsAreTyped
    PROVE  /\ tool # Idle <=> tool \in Tool
           /\ tool.at \in Moving => tool \in Tool
           /\ tool.at = "fetch" => tool \in Tool
           /\ result # Idle <=> result \in Result
           /\ Idle.at = "idle" /\ Idle \notin Tool
           /\ written \in Nat
           /\ \A o \in Outputs : records[o] \in Nat /\ local[o] \in Nat /\ remote[o] \in Nat
                                 /\ restored[o] \in Nat /\ manifest[o] \in Nat
<1>1. Idle.at = "idle"
    BY DEF Idle
<1>2. Idle \notin Tool
    BY <1>1 DEF Tool, Moving
<1>3. Idle \notin Result
    BY <1>1 DEF Result
<1>4. Idle.at \notin Moving \cup {"fetch"}
    BY <1>1 DEF Moving
<1>5. Contents \subseteq Nat
    BY DEF Contents
<1> QED
    BY <1>1, <1>2, <1>3, <1>4, <1>5 DEF OutputsAreTyped

(***************************************************************************)
(* A new write goes to the API's own store, which alone is up to date      *)
(* afterwards.                                                             *)
(***************************************************************************)
LEMMA PutIsFresh ==
    ASSUME ArtifactsInvariant, NEW o \in Outputs, PutOutput(o)
    PROVE  ArtifactsInvariant'
<1> USE DEF ArtifactsInvariant
<1>1. /\ result = Idle /\ written < MaxWrites /\ written' = written + 1
      /\ local' = IF backend = "local" THEN [local EXCEPT ![o] = written'] ELSE local
      /\ remote' = IF backend = "s3" THEN [remote EXCEPT ![o] = written'] ELSE remote
      /\ restored' = IF backend = "restored" THEN [restored EXCEPT ![o] = written'] ELSE restored
      /\ result' = [at |-> "record", output |-> o, content |-> written']
      /\ tool' = IF tool = Idle THEN Idle ELSE [tool EXCEPT !.quiet = FALSE]
      /\ fresh' = {backend}
      /\ UNCHANGED <<records, backend, manifest, covered>>
    BY DEF PutOutput
<1>2. /\ written \in Contents /\ written' \in Contents /\ written' \in Nat /\ written' > written
      /\ written \in Nat
    BY <1>1, ArtifactsAssumption DEF OutputsAreTyped, Contents
<1>3. \/ tool = Idle /\ tool' = Idle
      \/ /\ tool \in Tool /\ tool' \in Tool /\ tool'.quiet = FALSE /\ tool'.at = tool.at
         /\ tool'.todo = tool.todo /\ tool'.output = tool.output /\ tool'.force = tool.force
    <2>1. ASSUME tool \in Tool
          PROVE  /\ [tool EXCEPT !.quiet = FALSE] \in Tool
                 /\ [tool EXCEPT !.quiet = FALSE].quiet = FALSE
                 /\ [tool EXCEPT !.quiet = FALSE].at = tool.at
                 /\ [tool EXCEPT !.quiet = FALSE].todo = tool.todo
                 /\ [tool EXCEPT !.quiet = FALSE].output = tool.output
                 /\ [tool EXCEPT !.quiet = FALSE].force = tool.force
        BY <2>1 DEF Tool
    <2> QED
        BY <1>1, <2>1, ToolShapes
<1>4. OutputsAreTyped'
    <2>1. result' \in Result /\ result'.content = written'
        BY <1>1, <1>2 DEF Result
    <2>2. /\ local' \in [Outputs -> Contents] /\ remote' \in [Outputs -> Contents]
          /\ restored' \in [Outputs -> Contents]
        BY <1>1, <1>2 DEF OutputsAreTyped
    <2>3. \A p \in Outputs : records[p] <= written'
        BY <1>2, ToolShapes DEF OutputsAreTyped
    <2> QED
        BY <1>1, <1>2, <1>3, <2>1, <2>2, <2>3 DEF OutputsAreTyped
<1>5. FreshIsClosed'
    <2>1. fresh' \in Single
        BY <1>1 DEF OutputsAreTyped, Single
    <2> QED
        BY <1>3, <2>1, ToolShapes DEF FreshIsClosed, Single
<1>6. Ids(local) \subseteq Ids(local)'
    BY <1>1, <1>2 DEF Ids, OutputsAreTyped
<1>7. RunIsFaithful'
    <2>1. tool'.at \in Moving \cup {"fetch"} => tool \in Tool /\ ~tool'.quiet /\ tool'.at = tool.at
                                   /\ tool'.todo = tool.todo /\ tool'.output = tool.output
        BY <1>3, ToolShapes DEF Moving
    <2> QED
        BY <1>6, <2>1 DEF RunIsFaithful
<1>8. ASSUME covered' PROVE OrderIsKept'
    <2>0. OrderIsKept
        BY <1>1, <1>8
    <2>1. ASSUME NEW old \in [Outputs -> Contents], NEW new,
                 new = [old EXCEPT ![o] = written'], Covers(old)
          PROVE  \A p \in Outputs : /\ new[p] >= records'[p]
                                    /\ result'.output = p => new[p] >= result'.content
        <3>1. new[o] = written' /\ \A p \in Outputs \ {o} : new[p] = old[p]
            BY <2>1
        <3>2. \A p \in Outputs : new[p] >= records[p]
            BY <1>2, <2>1, <3>1, ToolShapes DEF Covers, OutputsAreTyped
        <3>3. result'.output = o /\ result'.content = written' /\ written' >= written'
            BY <1>1, <1>2
        <3> QED
            BY <1>1, <3>1, <3>2, <3>3
    <2>2. backend \in fresh /\ fresh' = {backend}
        BY <1>1, <2>0 DEF OrderIsKept
    <2>3. "local" \in fresh' => Covers(local)'
        <3> SUFFICES ASSUME backend = "local" PROVE Covers(local)'
            BY <2>2
        <3>1. local' = [local EXCEPT ![o] = written'] /\ Covers(local)
            BY <1>1, <2>0, <2>2 DEF OrderIsKept
        <3> QED
            BY <2>1, <3>1 DEF OutputsAreTyped, Covers
    <2>4. "s3" \in fresh' => Covers(remote)' /\ Ids(local)' \subseteq Ids(remote)'
        <3> SUFFICES ASSUME backend = "s3" PROVE Covers(remote)' /\ Ids(local)' \subseteq Ids(remote)'
            BY <2>2
        <3>1. /\ remote' = [remote EXCEPT ![o] = written'] /\ Covers(remote) /\ local' = local
              /\ Ids(local) \subseteq Ids(remote)
            BY <1>1, <2>0, <2>2 DEF OrderIsKept
        <3>2. Ids(local)' \subseteq Ids(remote)'
            BY <1>2, <3>1 DEF Ids, OutputsAreTyped
        <3> QED
            BY <2>1, <3>1, <3>2 DEF OutputsAreTyped, Covers
    <2>5. "restored" \in fresh' => Covers(restored)'
        <3> SUFFICES ASSUME backend = "restored" PROVE Covers(restored)'
            BY <2>2
        <3>1. restored' = [restored EXCEPT ![o] = written'] /\ Covers(restored)
            BY <1>1, <2>0, <2>2 DEF OrderIsKept
        <3> QED
            BY <2>1, <3>1 DEF OutputsAreTyped, Covers
    <2>6. "manifest" \notin fresh' /\ backend' \in fresh'
        BY <1>1 DEF OutputsAreTyped
    <2>7. tool'.at = tool.at /\ (tool'.at \in Moving => tool'.force = tool.force)
        BY <1>3, ToolShapes DEF Moving
    <2>8. tool'.at = "copy" /\ ~tool'.force => "s3" \notin fresh'
        <3> SUFFICES ASSUME tool'.at = "copy", ~tool'.force PROVE "s3" # backend
            BY <1>1
        <3> QED
            BY <2>0, <2>2, <2>7 DEF OrderIsKept, Moving
    <2>9. tool'.at \in Moving /\ tool'.force => backend' # "s3"
        BY <1>1, <2>0, <2>7 DEF OrderIsKept
    <2>10. tool'.at = "fetch" => backend' # "restored"
        BY <1>1, <2>0, <2>7 DEF OrderIsKept
    <2> QED
        BY <2>3, <2>4, <2>5, <2>6, <2>8, <2>9, <2>10 DEF OrderIsKept
<1> QED
    BY <1>4, <1>5, <1>7, <1>8

(***************************************************************************)
(* The record of a write, or its failure; and the API at another store.    *)
(***************************************************************************)
LEMMA RecordsAreCovered ==
    ASSUME ArtifactsInvariant, CommitRecord \/ ResultFails \/ MoveApi
    PROVE  ArtifactsInvariant'
<1> USE DEF ArtifactsInvariant
<1>0. /\ result' = Idle
      /\ UNCHANGED <<local, remote, restored, tool, manifest, written, fresh>>
    BY DEF CommitRecord, ResultFails, MoveApi, stores
<1>1. CASE CommitRecord
    <2>1. /\ result # Idle /\ result \in Result /\ result.output \in Outputs
          /\ result.content \in Contents /\ result.content <= written
        BY <1>1, ToolShapes DEF CommitRecord, Result, OutputsAreTyped
    <2>2. /\ records' = [records EXCEPT ![result.output] = result.content]
          /\ UNCHANGED <<backend, covered>>
        BY <1>1 DEF CommitRecord
    <2>3. OutputsAreTyped'
        BY <1>0, <2>1, <2>2 DEF OutputsAreTyped
    <2>4. FreshIsClosed' /\ RunIsFaithful'
        BY <1>0 DEF FreshIsClosed, RunIsFaithful, Ids
    <2>5. ASSUME NEW store, Covers(store) PROVE \A o \in Outputs : store[o] >= records'[o]
        BY <2>1, <2>2, <2>5 DEF Covers, OutputsAreTyped
    <2>6. OrderIsKept => OrderIsKept'
        BY <1>0, <2>2, <2>5 DEF OrderIsKept, Covers, Ids
    <2> QED
        BY <2>2, <2>3, <2>4, <2>6
<1>2. CASE ResultFails
    <2>1. UNCHANGED <<records, backend, covered>>
        BY <1>2 DEF ResultFails
    <2> QED
        BY <1>0, <2>1 DEF OutputsAreTyped, FreshIsClosed, RunIsFaithful, Ids, OrderIsKept, Covers
<1>3. CASE MoveApi
    <2>1. /\ backend' \in {"local", "s3", "restored"}
          /\ covered' => covered /\ backend' \in fresh /\ tool = Idle
          /\ UNCHANGED records
        BY <1>3 DEF MoveApi
    <2>2. OutputsAreTyped'
        BY <1>0, <2>1 DEF OutputsAreTyped
    <2>3. FreshIsClosed' /\ RunIsFaithful'
        BY <1>0 DEF FreshIsClosed, RunIsFaithful, Ids
    <2>4. covered' => OrderIsKept'
        <3> SUFFICES ASSUME covered' PROVE OrderIsKept'
            OBVIOUS
        <3>1. tool'.at = "idle"
            BY <1>0, <2>1, ToolShapes
        <3> QED
            BY <1>0, <2>1, <3>1 DEF OrderIsKept, Covers, Ids, Moving
    <2> QED
        BY <2>2, <2>3, <2>4
<1> QED
    BY <1>1, <1>2, <1>3

(***************************************************************************)
(* A step of the tool that leaves the stores and the manifest alone.       *)
(***************************************************************************)
LEMMA ToolMoves ==
    ASSUME ArtifactsInvariant,
           UNCHANGED <<local, remote, restored, records, backend, result, written, manifest, fresh>>,
           tool' \in {Idle} \cup Tool, covered' => covered,
           FreshIsClosed', RunIsFaithful',
           covered' => /\ tool'.at \in Moving /\ tool'.force => backend # "s3"
                       /\ tool'.at = "fetch" => backend # "restored"
                       /\ tool'.at = "copy" /\ ~tool'.force => "s3" \notin fresh
    PROVE  ArtifactsInvariant'
<1>1. OutputsAreTyped'
    BY DEF ArtifactsInvariant, OutputsAreTyped
<1>2. ASSUME covered' PROVE OrderIsKept'
    BY <1>2 DEF ArtifactsInvariant, OrderIsKept, Covers, Ids
<1> QED
    BY <1>1, <1>2 DEF ArtifactsInvariant

(***************************************************************************)
(* The beginning and the end of a run that has no result.                  *)
(***************************************************************************)
LEMMA RunsBegin ==
    ASSUME ArtifactsInvariant, StartMigration \/ StartRestore \/ ToolStops
    PROVE  ArtifactsInvariant'
<1> USE DEF ArtifactsInvariant
<1>0. UNCHANGED <<local, remote, restored, records, backend, result, written, manifest, fresh>>
    BY DEF StartMigration, StartRestore, ToolStops, stores, ToolUnchanged
<1>1. CASE ToolStops
    <2>1. /\ tool' = Idle /\ tool'.at = "idle" /\ UNCHANGED covered
        BY <1>1, ToolShapes DEF ToolStops
    <2>2. FreshIsClosed' /\ RunIsFaithful'
        BY <1>0, <2>1 DEF FreshIsClosed, RunIsFaithful, Moving
    <2> QED
        BY <1>0, <2>1, <2>2, ToolMoves DEF Moving
<1>2. 0 \in Contents
    BY ArtifactsAssumption DEF Contents
<1>3. \A store \in [Outputs -> Contents] : Ids(store) \in SUBSET Outputs
    BY DEF Ids
<1>4. CASE StartMigration
    <2>1. PICK force \in BOOLEAN :
              /\ Run("read", local, force, "local" \in fresh)
              /\ covered' = (covered /\ (force => backend # "s3"))
        BY <1>4 DEF StartMigration
    <2>2. tool' = [at |-> "read", todo |-> Ids(local), listed |-> local, force |-> force,
                   quiet |-> ("local" \in fresh), output |-> 0, data |-> 0]
        BY <2>1 DEF Run
    <2>3. tool' \in Tool
        BY <1>2, <1>3, <2>2 DEF Tool, OutputsAreTyped, Moving
    <2>4. FreshIsClosed'
        <3>1. "local" \in fresh => fresh \notin Single \/ fresh = {"local"}
            BY DEF Single
        <3>2. "local" \notin fresh => fresh \in Single
            BY DEF FreshIsClosed
        <3> QED
            BY <1>0, <2>2, <3>1, <3>2 DEF FreshIsClosed
    <2>5. RunIsFaithful'
        BY <1>0, <2>2 DEF RunIsFaithful, Ids
    <2> QED
        BY <1>0, <2>1, <2>2, <2>3, <2>4, <2>5, ToolMoves
<1>5. CASE StartRestore
    <2>1. /\ Run("fetch", manifest, FALSE, "manifest" \in fresh)
          /\ covered' = (covered /\ backend # "restored")
        BY <1>5 DEF StartRestore
    <2>2. tool' = [at |-> "fetch", todo |-> Ids(manifest), listed |-> manifest, force |-> FALSE,
                   quiet |-> ("manifest" \in fresh), output |-> 0, data |-> 0]
        BY <2>1 DEF Run
    <2>3. tool' \in Tool
        BY <1>2, <1>3, <2>2 DEF Tool, OutputsAreTyped
    <2>4. FreshIsClosed'
        <3>1. "manifest" \in fresh => fresh \notin Single
            BY DEF Single
        <3>2. "manifest" \notin fresh => fresh \in Single
            BY DEF FreshIsClosed
        <3> QED
            BY <1>0, <2>2, <3>1, <3>2 DEF FreshIsClosed
    <2>5. RunIsFaithful'
        BY <1>0, <2>2 DEF RunIsFaithful, Ids, Moving
    <2> QED
        BY <1>0, <2>1, <2>2, <2>3, <2>4, <2>5, ToolMoves DEF Moving
<1> QED
    BY <1>1, <1>4, <1>5

(***************************************************************************)
(* Reading the directory and comparing with the bucket.                    *)
(***************************************************************************)
LEMMA MigrationReads ==
    ASSUME ArtifactsInvariant, ReadLocal \/ InspectRemote \/ ReadBack
    PROVE  ArtifactsInvariant'
<1> USE DEF ArtifactsInvariant
<1>0. UNCHANGED <<local, remote, restored, records, backend, result, written, manifest, fresh, covered>>
    BY DEF ReadLocal, InspectRemote, ReadBack, stores, ToolUnchanged
<1>1. tool \in Tool /\ tool.at \in Moving /\ tool # Idle
    BY ToolShapes DEF ReadLocal, InspectRemote, ReadBack, Moving
<1>2. /\ tool.todo \subseteq Ids(local) /\ Ids(local) \subseteq Outputs
      /\ tool.at # "read" => tool.output \in Ids(local)
    BY <1>1 DEF RunIsFaithful, Ids
<1>3. ASSUME tool' \in Tool, tool'.quiet = tool.quiet, tool'.at \in Moving PROVE FreshIsClosed'
    BY <1>0, <1>1, <1>3, ToolShapes DEF FreshIsClosed, Moving
<1>4. CASE ReadLocal
    <2>1. PICK o \in tool.todo :
              tool' = [tool EXCEPT !.at = "inspect", !.todo = tool.todo \ {o}, !.output = o, !.data = local[o]]
        BY <1>4 DEF ReadLocal
    <2>2. /\ o \in Outputs /\ o \in Ids(local) /\ local[o] \in Contents /\ tool.at = "read"
        BY <1>2, <1>4, <2>1 DEF OutputsAreTyped, ReadLocal
    <2>3. /\ tool' \in Tool /\ tool'.at = "inspect" /\ tool'.todo = tool.todo \ {o}
          /\ tool'.output = o /\ tool'.data = local[o] /\ tool'.quiet = tool.quiet
          /\ tool'.force = tool.force /\ tool'.listed = tool.listed
        BY <1>1, <2>1, <2>2 DEF Tool, Moving
    <2>4. RunIsFaithful'
        BY <1>0, <1>1, <1>2, <2>2, <2>3 DEF RunIsFaithful, Ids, Moving
    <2>5. covered => (tool.force => backend # "s3")
        BY <1>1 DEF OrderIsKept
    <2> QED
        BY <1>0, <1>3, <2>3, <2>4, <2>5, ToolMoves DEF Moving
<1>5. ASSUME tool' = Entered, tool.at # "read", remote[tool.output] = tool.data
      PROVE  ArtifactsInvariant'
    <2>1. /\ tool' \in Tool /\ tool'.at = "read" /\ tool'.todo = tool.todo
          /\ tool'.quiet = tool.quiet /\ tool'.force = tool.force
          /\ tool'.listed = [tool.listed EXCEPT ![tool.output] = tool.data]
        BY <1>1, <1>5 DEF Entered, Tool, Moving
    <2>2. RunIsFaithful'
        <3>1. ASSUME tool.quiet
              PROVE  /\ tool'.listed = local
                     /\ \A o \in Ids(local) : o \in tool.todo \/ remote[o] = local[o]
            <4>1. tool.listed = local /\ tool.data = local[tool.output]
                BY <1>1, <1>5, <3>1 DEF RunIsFaithful
            <4> QED
                BY <1>1, <1>5, <2>1, <3>1, <4>1 DEF RunIsFaithful, OutputsAreTyped
        <3> QED
            BY <1>0, <1>2, <2>1, <3>1 DEF RunIsFaithful, Ids
    <2>3. covered => (tool.force => backend # "s3")
        BY <1>1 DEF OrderIsKept
    <2> QED
        BY <1>0, <1>3, <2>1, <2>2, <2>3, ToolMoves DEF Moving
<1>6. CASE InspectRemote
    <2>1. /\ tool.at = "inspect" /\ (remote[tool.output] \in {0, tool.data} \/ tool.force)
          /\ tool' = IF remote[tool.output] = tool.data THEN Entered ELSE [tool EXCEPT !.at = "copy"]
        BY <1>6 DEF InspectRemote
    <2>2. CASE remote[tool.output] # tool.data
        <3>1. /\ tool' \in Tool /\ tool'.at = "copy" /\ tool'.todo = tool.todo
              /\ tool'.output = tool.output /\ tool'.data = tool.data
              /\ tool'.quiet = tool.quiet /\ tool'.force = tool.force /\ tool'.listed = tool.listed
            BY <1>1, <2>1, <2>2 DEF Tool, Moving
        <3>2. RunIsFaithful'
            BY <1>0, <1>1, <1>2, <2>1, <3>1 DEF RunIsFaithful, Ids, Moving
        <3>3. covered => (tool.force => backend # "s3")
            BY <1>1 DEF OrderIsKept
        <3>4. covered /\ ~tool.force => "s3" \notin fresh
            BY <1>2, <2>1, <2>2 DEF OrderIsKept, Ids
        <3> QED
            BY <1>0, <1>3, <3>1, <3>2, <3>3, <3>4, ToolMoves DEF Moving
    <2> QED
        BY <1>5, <2>1, <2>2
<1>7. CASE ReadBack
    BY <1>5, <1>7 DEF ReadBack
<1> QED
    BY <1>4, <1>6, <1>7

(***************************************************************************)
(* An object is put into the bucket; one that covered its record is        *)
(* overwritten only with what the directory has.                           *)
(***************************************************************************)
LEMMA MigrationCopies ==
    ASSUME ArtifactsInvariant, CopyObject
    PROVE  ArtifactsInvariant'
<1> USE DEF ArtifactsInvariant
<1>1. /\ tool.at = "copy"
      /\ remote' = [remote EXCEPT ![tool.output] = tool.data]
      /\ tool' = [tool EXCEPT !.at = "verify"]
      /\ UNCHANGED <<local, restored, records, backend, result, written, manifest, fresh, covered>>
    BY DEF CopyObject, ToolUnchanged
<1>2. tool \in Tool /\ tool.at \in Moving /\ tool # Idle /\ tool.data \in Contents
    BY <1>1, ToolShapes DEF Moving, Tool
<1>3. /\ tool.todo \subseteq Ids(local) /\ Ids(local) \subseteq Outputs /\ tool.output \in Ids(local)
    BY <1>1, <1>2 DEF RunIsFaithful, Ids
<1>4. /\ tool' \in Tool /\ tool'.at = "verify" /\ tool'.todo = tool.todo
      /\ tool'.output = tool.output /\ tool'.data = tool.data
      /\ tool'.quiet = tool.quiet /\ tool'.force = tool.force /\ tool'.listed = tool.listed
    BY <1>1, <1>2 DEF Tool, Moving
<1>5. /\ remote' \in [Outputs -> Contents] /\ remote'[tool.output] = tool.data
      /\ \A o \in Outputs \ {tool.output} : remote'[o] = remote[o]
    BY <1>1, <1>2, <1>3 DEF OutputsAreTyped
<1>6. OutputsAreTyped'
    BY <1>1, <1>4, <1>5 DEF OutputsAreTyped
<1>7. FreshIsClosed'
    BY <1>1, <1>2, <1>4, ToolShapes DEF FreshIsClosed
<1>8. RunIsFaithful'
    BY <1>1, <1>2, <1>3, <1>4, <1>5 DEF RunIsFaithful, Ids, Moving
<1>9. ASSUME covered PROVE OrderIsKept'
    <2>1. OrderIsKept /\ (tool.force => backend # "s3")
        BY <1>2, <1>9 DEF OrderIsKept
    <2>2. ASSUME "s3" \in fresh PROVE Covers(remote)' /\ Ids(local)' \subseteq Ids(remote)'
        <3>1. tool.force
            BY <1>1, <2>1, <2>2 DEF OrderIsKept
        <3>2. fresh \notin Single
            BY <2>1, <2>2, <3>1 DEF OrderIsKept, Single
        <3>3. tool.quiet /\ "local" \in fresh
            BY <1>2, <3>2 DEF FreshIsClosed, Tool
        <3>4. tool.data = local[tool.output]
            BY <1>1, <1>2, <3>3 DEF RunIsFaithful
        <3>5. Covers(local) /\ Covers(remote) /\ Ids(local) \subseteq Ids(remote)
            BY <2>1, <2>2, <3>3 DEF OrderIsKept
        <3>6. Covers(remote)'
            BY <1>1, <1>3, <1>5, <3>4, <3>5 DEF Covers
        <3>7. Ids(local)' \subseteq Ids(remote)'
            BY <1>1, <1>3, <1>5, <3>4, <3>5 DEF Ids
        <3> QED
            BY <3>6, <3>7
    <2> QED
        BY <1>1, <1>4, <2>1, <2>2 DEF OrderIsKept, Covers, Moving
<1> QED
    BY <1>1, <1>6, <1>7, <1>8, <1>9

(***************************************************************************)
(* A migration that met no error: what it has copied is the directory, if  *)
(* the API wrote nothing meanwhile.                                        *)
(***************************************************************************)
LEMMA MigrationEnds ==
    ASSUME ArtifactsInvariant, WriteManifest
    PROVE  ArtifactsInvariant'
<1> USE DEF ArtifactsInvariant
<1>1. /\ tool.at = "read" /\ tool.todo = {} /\ tool' = Idle
      /\ manifest' = tool.listed
      /\ fresh' = (fresh \ {"manifest"}) \cup (IF tool.quiet THEN {"s3", "manifest"} ELSE {})
      /\ UNCHANGED <<local, remote, restored, records, backend, result, written, covered>>
    BY DEF WriteManifest, ToolUnchanged, stores
<1>2. tool \in Tool /\ tool.at \in Moving /\ tool # Idle
    BY <1>1, ToolShapes DEF Moving
<1>3. OutputsAreTyped'
    BY <1>1, <1>2 DEF OutputsAreTyped, Tool
<1>4. tool'.at = "idle" /\ RunIsFaithful'
    BY <1>1, ToolShapes DEF RunIsFaithful, Moving
<1>5. CASE ~tool.quiet
    <2>1. fresh \in Single /\ fresh' = fresh
        BY <1>1, <1>2, <1>5 DEF FreshIsClosed, Single
    <2>2. FreshIsClosed'
        BY <1>1, <2>1 DEF FreshIsClosed
    <2>3. OrderIsKept => OrderIsKept'
        BY <1>1, <1>4, <2>1 DEF OrderIsKept, Covers, Ids, Moving, Single
    <2> QED
        BY <1>1, <1>3, <1>4, <2>2, <2>3
<1>6. CASE tool.quiet
    <2>1. /\ "local" \in fresh /\ fresh' \ {"s3", "manifest"} = fresh \ {"s3", "manifest"}
        BY <1>1, <1>2, <1>6 DEF FreshIsClosed
    <2>2. FreshIsClosed'
        <3>1. fresh' \in {{"local", "s3", "manifest"}, {"local", "s3", "manifest", "restored"}}
            BY <1>1, <1>6, <2>1 DEF FreshIsClosed, Single
        <3> QED
            BY <1>1, <3>1 DEF FreshIsClosed
    <2>3. manifest' = local /\ \A o \in Ids(local) : remote[o] = local[o]
        BY <1>1, <1>2, <1>6 DEF RunIsFaithful
    <2>4. ASSUME covered PROVE OrderIsKept'
        <3>1. Covers(local) /\ backend \in fresh' /\ OrderIsKept
            BY <1>1, <1>6, <2>1, <2>4 DEF OrderIsKept
        <3>2. \A o \in Outputs : remote[o] >= local[o]
            BY <2>3, ToolShapes DEF Ids
        <3>3. Covers(remote)'
            <4>1. \A o \in Outputs : remote[o] >= records[o]
                BY <3>1, <3>2, ToolShapes DEF Covers
            <4>2. ASSUME NEW o \in Outputs, result # Idle, result.output = o
                  PROVE  remote[o] >= result.content
                <5>1. local[o] >= result.content
                    BY <3>1, <4>2 DEF Covers
                <5>2. result.content \in Nat
                    BY <4>2, ToolShapes DEF Result, Contents
                <5> QED
                    BY <3>2, <5>1, <5>2, ToolShapes
            <4> QED
                BY <1>1, <4>1, <4>2 DEF Covers
        <3>4. Ids(local)' \subseteq Ids(remote)'
            BY <1>1, <2>3 DEF Ids
        <3>5. Covers(local)' /\ Covers(manifest)'
            BY <1>1, <2>3, <3>1 DEF Covers
        <3>6. "restored" \in fresh' => Covers(restored)'
            BY <1>1, <2>1, <3>1 DEF OrderIsKept, Covers
        <3> QED
            BY <1>1, <1>4, <3>1, <3>3, <3>4, <3>5, <3>6 DEF OrderIsKept, Moving
    <2> QED
        BY <1>1, <1>3, <1>4, <2>2, <2>4
<1> QED
    BY <1>5, <1>6

(***************************************************************************)
(* A restore writes to a directory that the API does not use; if that was  *)
(* up to date, so is the manifest the restore works from.                  *)
(***************************************************************************)
LEMMA RestoreFetches ==
    ASSUME ArtifactsInvariant, FetchObject
    PROVE  ArtifactsInvariant'
<1> USE DEF ArtifactsInvariant
<1>1. /\ tool.at = "fetch"
      /\ UNCHANGED <<local, remote, records, backend, result, written, manifest, fresh, covered>>
    BY DEF FetchObject, ToolUnchanged
<1>2. PICK o \in tool.todo :
          /\ restored' = [restored EXCEPT ![o] = tool.listed[o]]
          /\ tool' = [tool EXCEPT !.todo = @ \ {o}]
    BY DEF FetchObject
<1>3. /\ tool \in Tool /\ tool # Idle /\ o \in Outputs /\ tool.listed[o] \in Contents
    BY <1>1, <1>2, ToolShapes DEF Tool
<1>4. /\ tool' \in Tool /\ tool'.at = "fetch" /\ tool'.todo = tool.todo \ {o}
      /\ tool'.quiet = tool.quiet /\ tool'.listed = tool.listed
    BY <1>1, <1>2, <1>3 DEF Tool
<1>5. /\ restored' \in [Outputs -> Contents] /\ restored'[o] = tool.listed[o]
      /\ \A p \in Outputs \ {o} : restored'[p] = restored[p]
    BY <1>2, <1>3 DEF OutputsAreTyped
<1>6. OutputsAreTyped'
    BY <1>1, <1>4, <1>5 DEF OutputsAreTyped
<1>7. FreshIsClosed'
    BY <1>1, <1>3, <1>4, ToolShapes DEF FreshIsClosed
<1>8. RunIsFaithful'
    BY <1>1, <1>3, <1>4, <1>5 DEF RunIsFaithful, Ids, Moving
<1>9. ASSUME covered PROVE OrderIsKept'
    <2>1. OrderIsKept /\ backend # "restored" /\ backend \in fresh
        BY <1>1, <1>9 DEF OrderIsKept
    <2>2. ASSUME "restored" \in fresh PROVE Covers(restored)'
        <3>1. fresh \notin Single /\ "manifest" \in fresh
            BY <2>1, <2>2 DEF FreshIsClosed, Single
        <3>2. tool.quiet
            BY <1>3, <3>1 DEF FreshIsClosed, Tool
        <3>3. tool.listed = manifest
            BY <1>1, <3>2 DEF RunIsFaithful
        <3>4. Covers(restored) /\ Covers(manifest)
            BY <2>1, <2>2, <3>1 DEF OrderIsKept
        <3> QED
            BY <1>1, <1>5, <3>3, <3>4 DEF Covers
    <2> QED
        BY <1>1, <1>4, <2>1, <2>2 DEF OrderIsKept, Covers, Ids, Moving
<1> QED
    BY <1>1, <1>6, <1>7, <1>8, <1>9

(***************************************************************************)
(* A restore that has fetched everything, and during which the API wrote   *)
(* nothing, has what the manifest has.                                     *)
(***************************************************************************)
LEMMA RestoreEnds ==
    ASSUME ArtifactsInvariant, FinishRestore
    PROVE  ArtifactsInvariant'
<1> USE DEF ArtifactsInvariant
<1>1. /\ tool.at = "fetch" /\ tool.todo = {} /\ tool' = Idle
      /\ fresh' = fresh \cup (IF tool.quiet THEN {"restored"} ELSE {})
      /\ UNCHANGED <<local, remote, restored, records, backend, result, written, manifest, covered>>
    BY DEF FinishRestore, ToolUnchanged, stores
<1>2. tool \in Tool /\ tool # Idle
    BY <1>1, ToolShapes
<1>3. OutputsAreTyped'
    BY <1>1 DEF OutputsAreTyped
<1>4. tool'.at = "idle" /\ RunIsFaithful'
    BY <1>1, ToolShapes DEF RunIsFaithful, Moving
<1>5. FreshIsClosed'
    <2>1. tool.quiet => fresh \in {{"local", "s3", "manifest"}, {"local", "s3", "manifest", "restored"}}
        BY <1>1, <1>2 DEF FreshIsClosed
    <2>2. tool.quiet => fresh' = {"local", "s3", "manifest", "restored"}
        BY <1>1, <2>1
    <2> QED
        BY <1>1, <2>2 DEF FreshIsClosed
<1>6. ASSUME covered PROVE OrderIsKept'
    <2>1. OrderIsKept
        BY <1>6
    <2>2. ASSUME tool.quiet PROVE Covers(restored)'
        <3>1. \A o \in Ids(manifest) : restored[o] = manifest[o]
            BY <1>1, <2>2 DEF RunIsFaithful
        <3>2. Covers(manifest)
            BY <1>1, <1>2, <2>1, <2>2 DEF FreshIsClosed, OrderIsKept, Single
        <3>3. \A o \in Outputs : restored[o] >= manifest[o]
            BY <3>1, ToolShapes DEF Ids
        <3>4. \A o \in Outputs : restored[o] >= records[o]
            BY <3>2, <3>3, ToolShapes DEF Covers
        <3>5. ASSUME NEW o \in Outputs, result # Idle, result.output = o
              PROVE  restored[o] >= result.content
            <4>1. manifest[o] >= result.content
                BY <3>2, <3>5 DEF Covers
            <4>2. result.content \in Nat
                BY <3>5, ToolShapes DEF Result, Contents
            <4> QED
                BY <3>3, <4>1, <4>2, ToolShapes
        <3> QED
            BY <1>1, <3>4, <3>5 DEF Covers
    <2>3. "restored" \in fresh' => Covers(restored)'
        BY <1>1, <2>1, <2>2 DEF OrderIsKept, Covers
    <2> QED
        BY <1>1, <1>4, <2>1, <2>3 DEF OrderIsKept, Covers, Ids, Moving
<1> QED
    BY <1>1, <1>3, <1>4, <1>5, <1>6

(***************************************************************************)
(* The invariant holds throughout.                                         *)
(***************************************************************************)
LEMMA ArtifactsInvariantHolds == ArtifactsSpec => []ArtifactsInvariant
<1>1. ArtifactsInit => ArtifactsInvariant
    <2> SUFFICES ASSUME ArtifactsInit PROVE ArtifactsInvariant
        OBVIOUS
    <2>1. 0 \in Contents /\ Nothing \in [Outputs -> Contents] /\ \A o \in Outputs : Nothing[o] = 0
        BY ArtifactsAssumption DEF Nothing, Contents
    <2>2. OutputsAreTyped
        BY <2>1 DEF ArtifactsInit, OutputsAreTyped
    <2>3. tool.at = "idle"
        BY DEF ArtifactsInit, Idle
    <2>4. FreshIsClosed
        BY DEF ArtifactsInit, FreshIsClosed
    <2>5. RunIsFaithful
        BY <2>3 DEF RunIsFaithful, Moving
    <2>6. OrderIsKept
        BY <2>1, <2>3 DEF ArtifactsInit, OrderIsKept, Covers, Ids, Moving
    <2> QED
        BY <2>2, <2>4, <2>5, <2>6 DEF ArtifactsInvariant
<1>2. ASSUME ArtifactsInvariant, UNCHANGED artifactVars PROVE ArtifactsInvariant'
    BY <1>2 DEF artifactVars, ArtifactsInvariant, OutputsAreTyped, FreshIsClosed, RunIsFaithful,
                OrderIsKept, Covers, Ids
<1>3. ArtifactsInvariant /\ [ArtifactsNext]_artifactVars => ArtifactsInvariant'
    BY <1>2, PutIsFresh, RecordsAreCovered, RunsBegin, MigrationReads, MigrationCopies,
       MigrationEnds, RestoreFetches, RestoreEnds
    DEF ArtifactsNext, KeepOutputs, Migrate, Restore
<1> QED
    BY <1>1, <1>3, PTL DEF ArtifactsSpec

(***************************************************************************)
(* The stores, the records and the manifest hold writes of the API, and a  *)
(* run of the tool is where its code can be.                               *)
(***************************************************************************)
THEOREM ArtifactsTypes == ArtifactsSpec => []ArtifactsTypeOK
<1>1. ArtifactsInvariant => ArtifactsTypeOK
    BY ToolShapes DEF ArtifactsInvariant, OutputsAreTyped, ArtifactsTypeOK, Contents, Tool, Moving
<1> QED
    BY <1>1, ArtifactsInvariantHolds, PTL

(***************************************************************************)
(* If the API is moved only after a migration or a restore that ended well *)
(* and during which it wrote nothing, every record's object can be read    *)
(* and is not older than its record, for any number of outputs, writes and *)
(* runs of the tool (docs/migration.md).                                   *)
(***************************************************************************)
THEOREM RecordsStayReadable == ArtifactsSpec => []RecordsAreReadable
<1>1. ArtifactsInvariant => RecordsAreReadable
    <2> SUFFICES ASSUME ArtifactsInvariant, covered, NEW o \in Outputs PROVE Store[o] >= records[o]
        BY DEF RecordsAreReadable
    <2>1. OrderIsKept /\ backend \in {"local", "s3", "restored"}
        BY DEF ArtifactsInvariant, OutputsAreTyped
    <2>2. CASE backend = "local"
        BY <2>1, <2>2 DEF OrderIsKept, Covers, Store
    <2>3. CASE backend = "s3"
        BY <2>1, <2>3 DEF OrderIsKept, Covers, Store
    <2>4. CASE backend = "restored"
        BY <2>1, <2>4 DEF OrderIsKept, Covers, Store
    <2> QED
        BY <2>1, <2>2, <2>3, <2>4
<1> QED
    BY <1>1, ArtifactsInvariantHolds, PTL

-----------------------------------------------------------------------------
(* The audit chain. *)

\* A row of audit_events, whose hash was made from what was written.
IsEvent(e) ==
    /\ e = [at |-> e.at, text |-> e.text, previous |-> e.previous, hash |-> e.hash]
    /\ e.at \in 1 .. time
    /\ e.text \in {"written", "altered"}
    /\ e.hash \in {NoHash, <<e.at, "written", e.previous>>}

\* A handler that has its stamp, which nobody else has.
IsStamped(h) ==
    /\ \/ loose[h] = [at |-> "stamped", time |-> loose[h].time, alone |-> loose[h].alone]
       \/ loose[h] = [at |-> "read", time |-> loose[h].time, alone |-> loose[h].alone,
                      previous |-> loose[h].previous]
    /\ loose[h].alone \in BOOLEAN
    /\ loose[h].time \in 1 .. time
    /\ \A e \in events : e.at # loose[h].time
    /\ loose[h].alone => \A e \in events : e.at < loose[h].time
    /\ \A i \in Loose \ {h} : loose[i] # Idle => loose[i].time # loose[h].time

EventsAreTyped ==
    /\ time \in 0 .. Legacy + MaxEvents
    /\ served \in BOOLEAN /\ forked \in BOOLEAN
    /\ \A e \in events : IsEvent(e)
    /\ \A e, f \in events : e.at = f.at => e = f
    /\ DOMAIN loose = Loose /\ loose = [h \in Loose |-> loose[h]]
    /\ \A h \in Loose : loose[h] # Idle => served /\ IsStamped(h)

(***************************************************************************)
(* While the API serves, every event has a hash; before, those that have   *)
(* one come first.  What was altered shows.                                *)
(***************************************************************************)
HashesComeFirst ==
    /\ served => \A e \in events : e.hash # NoHash
    /\ \A e, f \in events : e.hash # NoHash /\ f.at < e.at => f.hash # NoHash
    /\ IF altered = {} THEN \A e \in events : e.text = "written"
                       ELSE \E e \in events : e.text = "altered" /\ e.hash # NoHash

\* hash is that of the last event of a set.
Follows(hash, set) == \/ set = {} /\ hash = NoHash
                      \/ \E f \in set : IsLast(f, set) /\ hash = f.hash

HasLast(set) == set = {} \/ \E f \in set : IsLast(f, set)

\* One event after the other.
EventsFollow ==
    /\ HasLast(events)
    /\ \A e \in events : HasLast(Earlier(e)) /\ (e.hash # NoHash => Follows(e.previous, Earlier(e)))

(***************************************************************************)
(* The chain, as long as nothing was altered and no loose event was        *)
(* written around another; a loose one under way that is alone has read    *)
(* the end of it.                                                          *)
(***************************************************************************)
AuditInvariant ==
    /\ EventsAreTyped
    /\ HashesComeFirst
    /\ altered = {} /\ ~forked =>
          /\ EventsFollow
          /\ \A h \in Loose : loose[h].at = "read" /\ loose[h].alone => Follows(loose[h].previous, events)

(***************************************************************************)
(* The event that is written, and hashes tell what was altered.            *)
(***************************************************************************)
LEMMA EventShape ==
    ASSUME NEW at, NEW previous
    PROVE  Event(at, previous) = [at |-> at, text |-> "written", previous |-> previous,
                                  hash |-> <<at, "written", previous>>]
BY DEF Event, HashOf

\* No hash is the first link's, and an altered event does not hash to its own hash.
LEMMA HashesDiffer ==
    \A at, previous : /\ <<at, "written", previous>> # NoHash
                      /\ <<at, "written", previous>> # <<at, "altered", previous>>
<1> TAKE at, previous
<1>1. DOMAIN <<at, "written", previous>> = 1 .. 3 /\ DOMAIN NoHash = {}
    BY DEF NoHash
<1>2. <<at, "written", previous>>[2] = "written" /\ <<at, "altered", previous>>[2] = "altered"
    OBVIOUS
<1> QED
    BY <1>1, <1>2

(***************************************************************************)
(* An event takes the place of the one of the same instant.                *)
(***************************************************************************)
LEMMA ReplacingKeepsTypes ==
    ASSUME EventsAreTyped, NEW e \in events, NEW n, n.at = e.at,
           n = [at |-> n.at, text |-> n.text, previous |-> n.previous, hash |-> n.hash],
           n.text \in {"written", "altered"}, n.hash \in {NoHash, <<n.at, "written", n.previous>>},
           events' = (events \ {e}) \cup {n},
           UNCHANGED <<time, loose, served, forked>>
    PROVE  EventsAreTyped'
<1>1. \A f \in events' : IsEvent(f)'
    BY DEF EventsAreTyped, IsEvent
<1>2. \A f, g \in events' : f.at = g.at => f = g
    BY DEF EventsAreTyped
<1>3. ASSUME NEW h \in Loose, loose[h] # Idle PROVE IsStamped(h)'
    <2>1. IsStamped(h)
        BY <1>3 DEF EventsAreTyped
    <2>2. \A f \in events' : \E g \in events : f.at = g.at
        OBVIOUS
    <2>3. \A f \in events' : f.at # loose[h].time
        BY <2>1, <2>2 DEF IsStamped
    <2>4. loose[h].alone => \A f \in events' : f.at < loose[h].time
        BY <2>1, <2>2 DEF IsStamped
    <2> QED
        BY <2>1, <2>3, <2>4 DEF IsStamped
<1> QED
    BY <1>1, <1>2, <1>3 DEF EventsAreTyped

(***************************************************************************)
(* The backfill writes the next event of the chain.                        *)
(***************************************************************************)
LEMMA BackfillExtendsTheChain ==
    ASSUME AuditInvariant, Backfill
    PROVE  AuditInvariant'
<1> USE DEF AuditInvariant
<1>1. PICK e \in events :
          /\ e.hash = NoHash
          /\ \A f \in Earlier(e) : f.hash # NoHash
          /\ events' = (events \ {e}) \cup {Backfilled(e)}
    BY DEF Backfill
<1>2. ~served /\ UNCHANGED <<time, loose, served, forked, altered>>
    BY DEF Backfill
<1> DEFINE prior == {f \in Earlier(e) : IsLast(f, Earlier(e))}
           previous == IF prior = {} THEN NoHash ELSE (CHOOSE f \in prior : TRUE).hash
<1>3. PICK n : n = Event(e.at, previous) /\ n = Backfilled(e)
    BY DEF Backfilled
<1> HIDE DEF previous
<1>4. /\ n = [at |-> e.at, text |-> "written", previous |-> previous,
              hash |-> <<e.at, "written", previous>>]
      /\ n.at = e.at /\ n.text = "written" /\ n.previous = previous
      /\ n.hash = <<e.at, "written", previous>> /\ n.hash # NoHash
    <2>1. n = [at |-> e.at, text |-> "written", previous |-> previous,
               hash |-> <<e.at, "written", previous>>]
        BY <1>3, EventShape
    <2>2. <<e.at, "written", previous>> # NoHash
        BY HashesDiffer
    <2> QED
        BY <2>1, <2>2
<1>5. events' = (events \ {e}) \cup {n}
    BY <1>1, <1>3
<1>6. EventsAreTyped'
    <2>1. n = [at |-> n.at, text |-> n.text, previous |-> n.previous, hash |-> n.hash]
        BY <1>4
    <2> QED
        BY <1>2, <1>4, <1>5, <2>1, ReplacingKeepsTypes
<1>7. HashesComeFirst'
    <2>2. \A f \in events : f.at < e.at => f.hash # NoHash
        BY <1>1 DEF Earlier
    <2>3. \A f, g \in events' : f.hash # NoHash /\ g.at < f.at => g.hash # NoHash
        BY <1>1, <1>4, <1>5, <2>2 DEF HashesComeFirst
    <2>4. IF altered = {} THEN \A f \in events' : f.text = "written"
                          ELSE \E f \in events' : f.text = "altered" /\ f.hash # NoHash
        BY <1>1, <1>4, <1>5 DEF HashesComeFirst
    <2> QED
        BY <1>2, <2>3, <2>4 DEF HashesComeFirst
<1>8. ASSUME altered = {}, ~forked PROVE EventsFollow'
    <2>1. EventsFollow
        BY <1>8
    <2>2. ASSUME NEW old, NEW new, e \in old, new = (old \ {e}) \cup {n}, HasLast(old) PROVE HasLast(new)
        <3>1. PICK f \in old : IsLast(f, old)
            BY <2>2 DEF HasLast
        <3>2. CASE f = e
            BY <1>4, <2>2, <3>1, <3>2 DEF HasLast, IsLast
        <3>3. CASE f # e
            BY <1>4, <2>2, <3>1, <3>3 DEF HasLast, IsLast
        <3> QED
            BY <3>2, <3>3
    <2>3. HasLast(events')
        BY <1>5, <2>1, <2>2 DEF EventsFollow
    <2>4. ASSUME NEW f \in events
          PROVE  /\ e \notin Earlier(f) => Earlier(f)' = Earlier(f)
                 /\ e \in Earlier(f) => Earlier(f)' = (Earlier(f) \ {e}) \cup {n}
        <3>1. Earlier(f)' = {g \in events' : g.at < f.at} /\ Earlier(f) = {g \in events : g.at < f.at}
            BY DEF Earlier
        <3> QED
            BY <1>4, <1>5, <3>1
    <2>5. Earlier(n)' = Earlier(e)
        <3>1. Earlier(n)' = {g \in events' : g.at < e.at} /\ Earlier(e) = {g \in events : g.at < e.at}
            BY <1>4 DEF Earlier
        <3>2. ~(e.at < e.at)
            BY DEF EventsAreTyped, IsEvent
        <3> QED
            BY <1>4, <1>5, <3>1, <3>2
    <2>6. HasLast(Earlier(e)) /\ Follows(previous, Earlier(e))
        <3>1. HasLast(Earlier(e))
            BY <2>1 DEF EventsFollow
        <3>2. CASE prior = {}
            BY <3>1, <3>2 DEF HasLast, Follows, previous
        <3>3. CASE prior # {}
            <4>1. (CHOOSE f \in prior : TRUE) \in prior
                BY <3>3
            <4> HIDE DEF prior
            <4>2. PICK f \in prior : previous = f.hash
                BY <3>3, <4>1 DEF previous
            <4> QED
                BY <3>1, <4>2 DEF Follows, prior
        <3> QED
            BY <3>2, <3>3
    <2>7. ASSUME NEW f \in events' PROVE HasLast(Earlier(f)')
        <3>1. CASE f = n
            BY <2>5, <2>6, <3>1
        <3>2. CASE f \in events
            <4>1. HasLast(Earlier(f))
                BY <2>1, <3>2 DEF EventsFollow
            <4> QED
                BY <2>2, <2>4, <3>2, <4>1
        <3> QED
            BY <1>5, <3>1, <3>2
    <2>8. ASSUME NEW f \in events', f.hash # NoHash PROVE Follows(f.previous, Earlier(f)')
        <3>1. CASE f = n
            BY <1>4, <2>5, <2>6, <3>1
        <3>2. CASE f \in events /\ f # n
            <4>1. e \notin Earlier(f)
                BY <1>1, <2>8, <3>2 DEF HashesComeFirst, Earlier
            <4>2. Follows(f.previous, Earlier(f))
                BY <2>1, <2>8, <3>2 DEF EventsFollow
            <4> QED
                BY <2>4, <3>2, <4>1, <4>2
        <3> QED
            BY <1>5, <3>1, <3>2
    <2> QED
        BY <2>3, <2>7, <2>8 DEF EventsFollow, HasLast, Follows, IsLast
<1>9. \A h \in Loose : loose'[h] = Idle
    BY <1>2 DEF EventsAreTyped
<1>10. Idle.at # "read"
    BY DEF Idle
<1> QED
    BY <1>2, <1>6, <1>7, <1>8, <1>9, <1>10

(***************************************************************************)
(* The clock moves on, and the loose writers that were alone no longer     *)
(* are.                                                                    *)
(***************************************************************************)
LEMMA AppendingKeepsTypes ==
    ASSUME EventsAreTyped, NEW writers, writers = [h \in Loose |-> writers[h]],
           \A h \in Loose : writers[h] \in {loose[h], Idle},
           NEW n, n = [at |-> n.at, text |-> "written", previous |-> n.previous,
                       hash |-> <<n.at, "written", n.previous>>],
           time' \in 0 .. Legacy + MaxEvents, time <= time', n.at \in 1 .. time',
           \A e \in events : e.at # n.at,
           \A h \in Loose : writers[h] # Idle => loose[h].time # n.at,
           events' = events \cup {n}, loose' = Overtaken(writers), served,
           served' = served, forked' \in BOOLEAN
    PROVE  /\ EventsAreTyped'
           /\ \A h \in Loose : loose'[h] = Idle \/ ~loose'[h].alone
<1>1. /\ n.text = "written" /\ n.hash = <<n.at, "written", n.previous>>
      /\ n = [at |-> n.at, text |-> n.text, previous |-> n.previous, hash |-> n.hash]
    OBVIOUS
<1>2. time \in Nat /\ time' \in Nat /\ 1 .. time \subseteq 1 .. time'
    BY AuditAssumption DEF EventsAreTyped
<1>3. \A f \in events' : IsEvent(f)'
    <2>1. ASSUME NEW f \in events PROVE IsEvent(f)'
        <3>1. IsEvent(f)
            BY DEF EventsAreTyped
        <3> QED
            BY <1>2, <3>1 DEF IsEvent
    <2>2. IsEvent(n)'
        BY <1>1 DEF IsEvent
    <2> QED
        BY <2>1, <2>2
<1>4. \A f, g \in events' : f.at = g.at => f = g
    BY DEF EventsAreTyped
<1>5. loose' = [h \in Loose |-> IF writers[h] = Idle THEN Idle ELSE [writers[h] EXCEPT !.alone = FALSE]]
    BY DEF Overtaken
<1>6. DOMAIN loose' = Loose /\ loose' = [h \in Loose |-> loose'[h]]
    BY <1>5
<1>7. ASSUME NEW h \in Loose, loose'[h] # Idle
      PROVE  IsStamped(h)' /\ ~loose'[h].alone
    <2>1. writers[h] # Idle /\ loose'[h] = [writers[h] EXCEPT !.alone = FALSE]
        BY <1>5, <1>7
    <2>2. writers[h] = loose[h] /\ IsStamped(h)
        BY <2>1 DEF EventsAreTyped
    <2>3. /\ \/ loose'[h] = [at |-> "stamped", time |-> loose[h].time, alone |-> FALSE]
             \/ loose'[h] = [at |-> "read", time |-> loose[h].time, alone |-> FALSE,
                             previous |-> loose[h].previous]
          /\ loose'[h].time = loose[h].time /\ loose'[h].alone = FALSE
          /\ loose'[h].at = "read" => loose'[h].previous = loose[h].previous
        <3>1. PICK no : no = FALSE
            OBVIOUS
        <3>3. loose'[h] = [loose[h] EXCEPT !.alone = no]
            BY <2>1, <2>2, <3>1
        <3>4. PICK t : t = loose[h].time
            OBVIOUS
        <3>5. PICK a : a = loose[h].alone
            OBVIOUS
        <3>6. PICK p : p = loose[h].previous
            OBVIOUS
        <3>7. PICK w : w = loose[h]
            OBVIOUS
        <3>8. CASE w = [at |-> "stamped", time |-> t, alone |-> a]
            <4>1. [w EXCEPT !.alone = no] = [at |-> "stamped", time |-> t, alone |-> no]
                BY <3>8
            <4> QED
                BY <3>1, <3>3, <3>4, <3>7, <4>1
        <3>9. CASE w = [at |-> "read", time |-> t, alone |-> a, previous |-> p]
            <4>1. [w EXCEPT !.alone = no] = [at |-> "read", time |-> t, alone |-> no, previous |-> p]
                BY <3>9
            <4> QED
                BY <3>1, <3>3, <3>4, <3>6, <3>7, <4>1
        <3>10. \/ loose'[h] = [at |-> "stamped", time |-> loose[h].time, alone |-> FALSE]
               \/ loose'[h] = [at |-> "read", time |-> loose[h].time, alone |-> FALSE,
                               previous |-> loose[h].previous]
            BY <2>2, <3>4, <3>5, <3>6, <3>7, <3>8, <3>9 DEF IsStamped
        <3> QED
            BY <3>10
    <2>4. \A i \in Loose \ {h} : loose'[i] # Idle => loose'[i].time # loose'[h].time
        <3> SUFFICES ASSUME NEW i \in Loose \ {h}, loose'[i] # Idle
                     PROVE  loose'[i].time # loose'[h].time
            OBVIOUS
        <3>1. writers[i] # Idle /\ loose'[i] = [writers[i] EXCEPT !.alone = FALSE]
            BY <1>5
        <3>2. writers[i] = loose[i] /\ IsStamped(i)
            BY <3>1 DEF EventsAreTyped
        <3>3. loose'[i].time = loose[i].time
            BY <3>1, <3>2 DEF IsStamped
        <3> QED
            BY <2>2, <2>3, <3>1, <3>2, <3>3 DEF IsStamped
    <2>5. /\ loose[h].time \in 1 .. time' /\ \A e \in events' : e.at # loose[h].time
        BY <1>2, <2>1, <2>2 DEF IsStamped
    <2>6. \/ loose'[h] = [at |-> "stamped", time |-> loose'[h].time, alone |-> loose'[h].alone]
          \/ loose'[h] = [at |-> "read", time |-> loose'[h].time, alone |-> loose'[h].alone,
                          previous |-> loose'[h].previous]
        BY <2>3
    <2>7. ~loose'[h].alone /\ loose'[h].alone \in BOOLEAN /\ loose'[h].time = loose[h].time
        BY <2>3
    <2> QED
        BY <2>4, <2>5, <2>6, <2>7 DEF IsStamped
<1> QED
    BY <1>3, <1>4, <1>6, <1>7 DEF EventsAreTyped

(***************************************************************************)
(* An event after all others, made from the last one's hash, extends the   *)
(* chain.                                                                  *)
(***************************************************************************)
LEMMA AppendingExtendsTheChain ==
    ASSUME EventsAreTyped, EventsFollow, NEW n, n.at \in Nat, \A e \in events : e.at < n.at,
           Follows(n.previous, events), events' = events \cup {n}
    PROVE  EventsFollow'
<1>1. \A e \in events : e.at \in Nat
    BY AuditAssumption DEF EventsAreTyped, IsEvent
<1>2. \A e \in events : Earlier(e)' = Earlier(e)
    <2> SUFFICES ASSUME NEW e \in events PROVE Earlier(e)' = Earlier(e)
        OBVIOUS
    <2>1. Earlier(e)' = {f \in events' : f.at < e.at}
        BY DEF Earlier
    <2>2. ~(n.at < e.at)
        BY <1>1
    <2> QED
        BY <2>1, <2>2 DEF Earlier
<1>3. Earlier(n)' = events
    <2>1. Earlier(n)' = {f \in events' : f.at < n.at}
        BY DEF Earlier
    <2> QED
        BY <2>1
<1>4. IsLast(n, events')
    BY <1>1 DEF IsLast
<1>5. HasLast(events')
    BY <1>4 DEF HasLast
<1>6. \A e \in events' : HasLast(Earlier(e)') /\ (e.hash # NoHash => Follows(e.previous, Earlier(e)'))
    <2>1. HasLast(events) /\ Follows(n.previous, events)
        BY DEF EventsFollow
    <2>2. \A e \in events : HasLast(Earlier(e)) /\ (e.hash # NoHash => Follows(e.previous, Earlier(e)))
        BY DEF EventsFollow
    <2> QED
        BY <1>2, <1>3, <2>1, <2>2
<1> QED
    BY <1>5, <1>6 DEF EventsFollow, HasLast, Follows, IsLast

\* What a writer reads as the latest hash is that of the last event.
LEMMA LatestIsLast ==
    ASSUME EventsFollow PROVE Follows(LatestHash, events)
<1>1. CASE events = {}
    BY <1>1 DEF Follows, LatestHash
<1>2. CASE events # {}
    <2>1. \E f \in events : IsLast(f, events)
        BY <1>2 DEF EventsFollow, HasLast
    <2>2. PICK f \in events : IsLast(f, events) /\ LatestHash = f.hash
        BY <1>2, <2>1 DEF LatestHash
    <2> QED
        BY <2>2 DEF Follows
<1> QED
    BY <1>1, <1>2

(***************************************************************************)
(* An event written while the API serves.                                  *)
(***************************************************************************)
LEMMA WritingKeepsTheChain ==
    ASSUME AuditInvariant, WriteInTransaction \/ \E h \in Loose : InsertEvent(h)
    PROVE  AuditInvariant'
<1> USE DEF AuditInvariant
<1>0. time \in Nat /\ \A e \in events : e.at \in 1 .. time
    BY AuditAssumption DEF EventsAreTyped, IsEvent
<1>1. ASSUME NEW n, n = [at |-> n.at, text |-> "written", previous |-> n.previous,
                        hash |-> <<n.at, "written", n.previous>>],
             events' = events \cup {n}, served, served' = served, altered' = altered
      PROVE  HashesComeFirst'
    <2>1. n.hash # NoHash /\ n.text = "written"
        BY <1>1, HashesDiffer
    <2> QED
        BY <1>1, <2>1 DEF HashesComeFirst
<1>2. CASE WriteInTransaction
    <2>1. PICK n : n = Event(time + 1, LatestHash)
        OBVIOUS
    <2>2. /\ n = [at |-> n.at, text |-> "written", previous |-> n.previous,
                  hash |-> <<n.at, "written", n.previous>>]
          /\ n.at = time + 1 /\ n.previous = LatestHash
        BY <2>1, EventShape
    <2>3. /\ served /\ time < MaxEvents /\ time' = time + 1 /\ events' = events \cup {n}
          /\ loose' = Overtaken(loose) /\ UNCHANGED <<served, forked, altered>>
        BY <1>2, <2>1 DEF WriteInTransaction, MayWrite
    <2>4. /\ time' \in 0 .. Legacy + MaxEvents /\ time <= time' /\ n.at \in 1 .. time'
          /\ \A e \in events : e.at < n.at /\ e.at # n.at
        BY <1>0, <2>2, <2>3, AuditAssumption
    <2>5. \A h \in Loose : loose[h] # Idle => loose[h].time # n.at
        BY <1>0, <2>2 DEF EventsAreTyped, IsStamped
    <2>6. /\ EventsAreTyped'
          /\ \A h \in Loose : loose'[h] = Idle \/ ~loose'[h].alone
        <3>1. loose = [h \in Loose |-> loose[h]] /\ forked' \in BOOLEAN
            BY <2>3 DEF EventsAreTyped
        <3> QED
            BY <2>2, <2>3, <2>4, <2>5, <3>1, AppendingKeepsTypes
    <2>7. HashesComeFirst'
        BY <1>1, <2>2, <2>3
    <2>8. ASSUME altered = {}, ~forked PROVE EventsFollow'
        BY <1>0, <2>2, <2>3, <2>4, <2>8, LatestIsLast, AppendingExtendsTheChain
    <2>9. Idle.at # "read"
        BY DEF Idle
    <2> QED
        BY <2>3, <2>6, <2>7, <2>8, <2>9
<1>3. ASSUME NEW h \in Loose, InsertEvent(h) PROVE AuditInvariant'
    <2>0. loose[h].at = "read" /\ loose[h] # Idle
        BY <1>3 DEF InsertEvent, Idle
    <2>1. PICK n : n = Event(loose[h].time, loose[h].previous)
        OBVIOUS
    <2>2. /\ n = [at |-> n.at, text |-> "written", previous |-> n.previous,
                  hash |-> <<n.at, "written", n.previous>>]
          /\ n.at = loose[h].time /\ n.previous = loose[h].previous
        BY <2>1, EventShape
    <2>3. /\ time' = time /\ events' = events \cup {n}
          /\ forked' = (forked \/ ~loose[h].alone)
          /\ loose' = Overtaken([loose EXCEPT ![h] = Idle])
          /\ UNCHANGED <<served, altered>>
        BY <1>3, <2>1 DEF InsertEvent
    <2>4. served /\ IsStamped(h)
        BY <2>0 DEF EventsAreTyped
    <2>5. PICK writers : writers = [loose EXCEPT ![h] = Idle]
        OBVIOUS
    <2>6. /\ writers = [i \in Loose |-> writers[i]] /\ writers[h] = Idle
          /\ \A i \in Loose \ {h} : writers[i] = loose[i]
        BY <2>5 DEF EventsAreTyped
    <2>7. /\ n.at \in 1 .. time' /\ \A e \in events : e.at # n.at
          /\ loose[h].alone => \A e \in events : e.at < n.at
          /\ \A i \in Loose : writers[i] # Idle => loose[i].time # n.at
        BY <2>2, <2>3, <2>4, <2>6 DEF IsStamped
    <2>8. /\ EventsAreTyped'
          /\ \A i \in Loose : loose'[i] = Idle \/ ~loose'[i].alone
        <3>1. /\ time' \in 0 .. Legacy + MaxEvents /\ time <= time' /\ forked' \in BOOLEAN
              /\ \A i \in Loose : writers[i] \in {loose[i], Idle}
            BY <1>0, <2>3, <2>4, <2>6 DEF EventsAreTyped, IsStamped
        <3>2. loose' = Overtaken(writers)
            BY <2>3, <2>5
        <3>3. events' = events \cup {n} /\ served' = served
            BY <2>3
        <3> QED
            BY <2>2, <2>4, <2>6, <2>7, <3>1, <3>2, <3>3, AppendingKeepsTypes
    <2>9. HashesComeFirst'
        BY <1>1, <2>2, <2>3, <2>4
    <2>10. ASSUME altered = {}, ~forked' PROVE EventsFollow'
        <3>1. ~forked /\ loose[h].alone
            BY <2>3, <2>10
        <3>2. EventsFollow /\ Follows(n.previous, events)
            BY <2>0, <2>2, <2>10, <3>1
        <3>3. n.at \in Nat
            BY <1>0, <2>3, <2>7
        <3> QED
            BY <2>3, <2>7, <3>1, <3>2, <3>3, AppendingExtendsTheChain
    <2>11. Idle.at # "read"
        BY DEF Idle
    <2> QED
        BY <2>3, <2>8, <2>9, <2>10, <2>11
<1> QED
    BY <1>2, <1>3

(***************************************************************************)
(* The steps that write no event.                                          *)
(***************************************************************************)
LEMMA WaitingKeepsTheChain ==
    ASSUME AuditInvariant,
           Serve \/ ProcessStops \/ \E h \in Loose : Stamp(h) \/ ReadLatest(h) \/ WriteFails(h)
    PROVE  AuditInvariant'
<1> USE DEF AuditInvariant
<1>0. UNCHANGED <<events, forked, altered>>
    BY DEF Serve, ProcessStops, Stamp, ReadLatest, WriteFails
<1>1. time \in Nat /\ \A e \in events : e.at \in 1 .. time
    BY AuditAssumption DEF EventsAreTyped, IsEvent
<1>2. Idle.at = "idle"
    BY DEF Idle
<1>3. ASSUME UNCHANGED <<time, served>> \/ (served' = TRUE /\ time' = time
                                           /\ \A e \in events : e.hash # NoHash),
             loose' = [h \in Loose |-> loose'[h]], \A h \in Loose : loose'[h] \in {loose[h], Idle}
      PROVE  AuditInvariant'
    <2>1. ASSUME NEW h \in Loose, loose'[h] # Idle PROVE served' /\ IsStamped(h)'
        <3>1. loose'[h] = loose[h] /\ served /\ IsStamped(h)
            BY <1>3, <2>1 DEF EventsAreTyped
        <3>2. served'
            BY <1>3, <3>1
        <3>3. \A i \in Loose \ {h} : loose'[i] # Idle => loose'[i].time # loose'[h].time
            BY <1>3, <3>1 DEF IsStamped
        <3> QED
            BY <1>0, <1>3, <3>1, <3>2, <3>3 DEF IsStamped
    <2>2. EventsAreTyped'
        BY <1>0, <1>3, <2>1 DEF EventsAreTyped, IsEvent
    <2>3. HashesComeFirst'
        BY <1>0, <1>3 DEF HashesComeFirst
    <2>4. EventsFollow => EventsFollow'
        BY <1>0 DEF EventsFollow, Earlier
    <2>5. \A h \in Loose : loose'[h].at = "read" => loose'[h] = loose[h]
        BY <1>2, <1>3
    <2> QED
        BY <1>0, <2>2, <2>3, <2>4, <2>5
<1>4. CASE Serve
    BY <1>3, <1>4 DEF Serve, EventsAreTyped
<1>5. CASE ProcessStops
    <2>1. ~served' /\ loose' = [h \in Loose |-> Idle] /\ time' = time /\ served' \in BOOLEAN
        BY <1>5 DEF ProcessStops
    <2>2. EventsAreTyped'
        BY <1>0, <2>1 DEF EventsAreTyped, IsEvent
    <2>3. HashesComeFirst'
        BY <1>0, <2>1 DEF HashesComeFirst
    <2>4. EventsFollow => EventsFollow'
        BY <1>0 DEF EventsFollow, Earlier
    <2> QED
        BY <1>0, <1>2, <2>1, <2>2, <2>3, <2>4
<1>6. ASSUME NEW h \in Loose, WriteFails(h) PROVE AuditInvariant'
    BY <1>3, <1>6 DEF WriteFails, EventsAreTyped
<1>7. ASSUME NEW h \in Loose, Stamp(h) PROVE AuditInvariant'
    <2>1. /\ served /\ time < MaxEvents /\ time' = time + 1 /\ served' = served
          /\ loose' = [loose EXCEPT ![h] = [at |-> "stamped", time |-> time + 1, alone |-> TRUE]]
        BY <1>7 DEF Stamp, MayWrite
    <2>2. time' \in 0 .. Legacy + MaxEvents /\ time' \in Nat /\ 1 .. time \subseteq 1 .. time'
        BY <1>1, <2>1, AuditAssumption
    <2>3. /\ loose'[h] = [at |-> "stamped", time |-> time + 1, alone |-> TRUE]
          /\ loose' = [i \in Loose |-> loose'[i]] /\ DOMAIN loose' = Loose
          /\ \A i \in Loose \ {h} : loose'[i] = loose[i]
        BY <2>1 DEF EventsAreTyped
    <2>4. \A i \in Loose \ {h} : loose[i] # Idle => loose[i].time # time + 1
        BY <1>1 DEF EventsAreTyped, IsStamped
    <2>5. IsStamped(h)'
        <3>1. /\ loose'[h] = [at |-> "stamped", time |-> loose'[h].time, alone |-> loose'[h].alone]
              /\ loose'[h].alone \in BOOLEAN /\ loose'[h].time = time + 1
            BY <2>3
        <3>2. \A e \in events' : e.at < time + 1 /\ e.at # time + 1
            BY <1>0, <1>1
        <3>3. loose'[h].time \in 1 .. time'
            BY <1>1, <2>1, <3>1
        <3> QED
            BY <2>3, <2>4, <3>1, <3>2, <3>3 DEF IsStamped
    <2>6. ASSUME NEW i \in Loose \ {h}, loose[i] # Idle PROVE IsStamped(i)'
        <3>1. IsStamped(i) /\ loose'[i] = loose[i]
            BY <2>3, <2>6 DEF EventsAreTyped
        <3>2. \A j \in Loose \ {i} : loose'[j] # Idle => loose'[j].time # loose[i].time
            BY <2>3, <2>4, <2>6, <3>1 DEF IsStamped
        <3> QED
            BY <1>0, <2>2, <3>1, <3>2 DEF IsStamped
    <2>7. \A i \in Loose : loose'[i] # Idle => served' /\ IsStamped(i)'
        BY <2>1, <2>3, <2>5, <2>6 DEF EventsAreTyped
    <2>8. \A e \in events' : IsEvent(e)'
        BY <1>0, <2>2 DEF EventsAreTyped, IsEvent
    <2>9. EventsAreTyped'
        BY <1>0, <2>1, <2>2, <2>3, <2>7, <2>8 DEF EventsAreTyped
    <2>10. HashesComeFirst' /\ (EventsFollow => EventsFollow')
        BY <1>0, <2>1 DEF HashesComeFirst, EventsFollow, Earlier
    <2>11. loose'[h].at # "read"
        BY <2>3
    <2> QED
        BY <1>0, <2>3, <2>9, <2>10, <2>11
<1>8. ASSUME NEW h \in Loose, ReadLatest(h) PROVE AuditInvariant'
    <2>1. /\ loose[h].at = "stamped" /\ loose[h] # Idle /\ UNCHANGED <<time, served>>
          /\ loose' = [loose EXCEPT ![h] = [at |-> "read", time |-> loose[h].time,
                                            alone |-> loose[h].alone, previous |-> LatestHash]]
        BY <1>2, <1>8 DEF ReadLatest
    <2>2. /\ loose'[h] = [at |-> "read", time |-> loose[h].time, alone |-> loose[h].alone,
                          previous |-> LatestHash]
          /\ loose' = [i \in Loose |-> loose'[i]] /\ DOMAIN loose' = Loose
          /\ \A i \in Loose \ {h} : loose'[i] = loose[i]
        BY <2>1 DEF EventsAreTyped
    <2>3. /\ loose'[h] # Idle /\ loose'[h].time = loose[h].time /\ loose'[h].alone = loose[h].alone
          /\ loose'[h].previous = LatestHash
          /\ loose'[h] = [at |-> "read", time |-> loose'[h].time, alone |-> loose'[h].alone,
                          previous |-> loose'[h].previous]
        BY <1>2, <2>2
    <2>4. \A i \in Loose : loose'[i] # Idle =>
              /\ loose[i] # Idle /\ loose'[i].time = loose[i].time /\ loose'[i].alone = loose[i].alone
              /\ IsStamped(i) /\ served
        BY <2>1, <2>2, <2>3 DEF EventsAreTyped
    <2> DEFINE Shape(w) ==
            \/ w = [at |-> "stamped", time |-> w.time, alone |-> w.alone]
            \/ w = [at |-> "read", time |-> w.time, alone |-> w.alone, previous |-> w.previous]
    <2>5. Shape(loose'[h])
        BY <2>3
    <2>6. \A i \in Loose : IsStamped(i) => Shape(loose[i])
        BY DEF IsStamped
    <2>7. ASSUME NEW i \in Loose, loose'[i] # Idle PROVE IsStamped(i)'
        <3>1. Shape(loose'[i])
            <4> HIDE DEF Shape
            <4> QED
                BY <2>2, <2>4, <2>5, <2>6, <2>7
        <3>2. \A j \in Loose \ {i} : loose'[j] # Idle => loose'[j].time # loose'[i].time
            BY <2>4, <2>7, ZenonT(40) DEF IsStamped
        <3> QED
            BY <1>0, <2>1, <2>4, <2>7, <3>1, <3>2, ZenonT(40) DEF IsStamped
    <2>8. EventsAreTyped'
        BY <1>0, <2>1, <2>2, <2>4, <2>7 DEF EventsAreTyped, IsEvent
    <2>9. HashesComeFirst' /\ (EventsFollow => EventsFollow')
        BY <1>0, <2>1 DEF HashesComeFirst, EventsFollow, Earlier
    <2>10. ASSUME altered = {}, ~forked, NEW i \in Loose, loose'[i].at = "read", loose'[i].alone
           PROVE  Follows(loose'[i].previous, events)
        <3>1. CASE i = h
            BY <2>3, <2>10, <3>1, LatestIsLast
        <3>2. CASE i # h
            BY <2>2, <2>10, <3>2
        <3> QED
            BY <3>1, <3>2
    <2> QED
        BY <1>0, <2>8, <2>9, <2>10
<1> QED
    BY <1>4, <1>5, <1>6, <1>7, <1>8

(***************************************************************************)
(* What was altered keeps its hash, which tells.                           *)
(***************************************************************************)
LEMMA AlteringShows ==
    ASSUME AuditInvariant, Alter
    PROVE  AuditInvariant'
<1> USE DEF AuditInvariant
<1>1. PICK e \in events :
          /\ events' = (events \ {e}) \cup {[e EXCEPT !.text = "altered"]}
          /\ altered' = altered \cup {e.at}
    BY DEF Alter
<1>2. served /\ UNCHANGED <<time, loose, served, forked>>
    BY DEF Alter
<1>3. PICK n : n = [e EXCEPT !.text = "altered"]
    OBVIOUS
<1>4. IsEvent(e) /\ e.hash # NoHash
    BY <1>2 DEF EventsAreTyped, HashesComeFirst
<1>5. n = [at |-> e.at, text |-> "altered", previous |-> e.previous, hash |-> e.hash]
    BY <1>3, <1>4 DEF IsEvent
<1>6. /\ n = [at |-> n.at, text |-> n.text, previous |-> n.previous, hash |-> n.hash]
      /\ n.at = e.at /\ n.text = "altered" /\ n.hash = e.hash /\ n.previous = e.previous
    BY <1>5
<1>7. EventsAreTyped'
    BY <1>1, <1>2, <1>3, <1>4, <1>6, ReplacingKeepsTypes DEF IsEvent
<1>8. HashesComeFirst'
    <2>1. \A f \in events' : f.hash # NoHash
        BY <1>1, <1>2, <1>3, <1>4, <1>6 DEF HashesComeFirst
    <2>2. altered' # {} /\ n \in events'
        BY <1>1, <1>3
    <2> QED
        BY <1>2, <1>4, <1>6, <2>1, <2>2 DEF HashesComeFirst
<1>9. altered' # {}
    BY <1>1
<1> QED
    BY <1>7, <1>8, <1>9

(***************************************************************************)
(* The invariant holds throughout.                                         *)
(***************************************************************************)
LEMMA AuditInvariantHolds == AuditSpec => []AuditInvariant
<1>1. AuditInit => AuditInvariant
    <2> SUFFICES ASSUME AuditInit PROVE AuditInvariant
        OBVIOUS
    <2>1. /\ events = {[at |-> i, text |-> "written", previous |-> NoHash, hash |-> NoHash] : i \in 1 .. Legacy}
          /\ time = Legacy /\ loose = [h \in Loose |-> Idle] /\ ~served /\ ~forked /\ altered = {}
          /\ served \in BOOLEAN /\ forked \in BOOLEAN
        BY DEF AuditInit
    <2>2. \A e \in events : /\ e.at \in 1 .. Legacy /\ e.text = "written" /\ e.hash = NoHash
                            /\ e = [at |-> e.at, text |-> "written", previous |-> NoHash, hash |-> NoHash]
                            /\ e.previous = NoHash
        BY <2>1
    <2>3. \A i \in 1 .. Legacy : \E e \in events : e.at = i
        <3> TAKE i \in 1 .. Legacy
        <3>1. [at |-> i, text |-> "written", previous |-> NoHash, hash |-> NoHash] \in events
            BY <2>1
        <3> QED
            BY <3>1
    <2>4. EventsAreTyped
        BY <2>1, <2>2, AuditAssumption DEF EventsAreTyped, IsEvent
    <2>5. HashesComeFirst
        BY <2>1, <2>2 DEF HashesComeFirst
    <2>6. HasLast(events)
        <3>1. CASE Legacy = 0
            BY <2>1, <3>1 DEF HasLast
        <3>2. CASE Legacy # 0
            <4>1. PICK e \in events : e.at = Legacy
                BY <2>3, <3>2, AuditAssumption
            <4> QED
                BY <2>2, <4>1, AuditAssumption DEF HasLast, IsLast
        <3> QED
            BY <3>1, <3>2
    <2>7. ASSUME NEW e \in events PROVE HasLast(Earlier(e))
        <3>1. e.at \in 1 .. Legacy
            BY <2>2
        <3>2. CASE e.at = 1
            BY <2>2, <3>2, AuditAssumption DEF HasLast, Earlier
        <3>3. CASE e.at # 1
            <4>1. PICK f \in events : f.at = e.at - 1
                BY <2>3, <3>1, <3>3, AuditAssumption
            <4>2. f \in Earlier(e) /\ IsLast(f, Earlier(e))
                BY <2>2, <3>1, <4>1, AuditAssumption DEF Earlier, IsLast
            <4> QED
                BY <4>2 DEF HasLast
        <3> QED
            BY <3>2, <3>3
    <2>8. Idle.at # "read"
        BY DEF Idle
    <2> QED
        BY <2>1, <2>2, <2>4, <2>5, <2>6, <2>7, <2>8 DEF AuditInvariant, EventsFollow
<1>2. ASSUME AuditInvariant, UNCHANGED auditVars PROVE AuditInvariant'
    BY <1>2 DEF auditVars, AuditInvariant, EventsAreTyped, IsEvent, IsStamped, HashesComeFirst,
                EventsFollow, Earlier
<1>3. AuditInvariant /\ [AuditNext]_auditVars => AuditInvariant'
    BY <1>2, BackfillExtendsTheChain, WritingKeepsTheChain, WaitingKeepsTheChain, AlteringShows
    DEF AuditNext
<1> QED
    BY <1>1, <1>3, PTL DEF AuditSpec

(***************************************************************************)
(* There is one event to an instant, and none from the future.             *)
(***************************************************************************)
THEOREM AuditTypes == AuditSpec => []AuditTypeOK
<1>1. AuditInvariant => AuditTypeOK
    BY DEF AuditInvariant, EventsAreTyped, IsEvent, AuditTypeOK
<1> QED
    BY <1>1, AuditInvariantHolds, PTL

(***************************************************************************)
(* A changed event never passes the verification, and a chain without one  *)
(* fails only if a loose event was written around another; for any number  *)
(* of handlers, events and starts (helpers.go:124-145).                    *)
(***************************************************************************)
THEOREM VerdictsHaveACause == AuditSpec => []VerdictHasCause
<1>1. AuditInvariant => VerdictHasCause
    <2> SUFFICES ASSUME AuditInvariant, served PROVE /\ altered # {} => ~Verifies
                                                     /\ altered = {} /\ ~forked => Verifies
        BY DEF VerdictHasCause
    <2>1. ASSUME altered # {} PROVE ~Verifies
        <3>1. PICK e \in events : e.text = "altered" /\ e.hash # NoHash
            BY <2>1 DEF AuditInvariant, HashesComeFirst
        <3>2. e.hash = <<e.at, "written", e.previous>>
            BY <3>1 DEF AuditInvariant, EventsAreTyped, IsEvent
        <3>3. HashOf(e) = <<e.at, "altered", e.previous>>
            BY <3>1 DEF HashOf
        <3>4. e.hash # HashOf(e)
            BY <3>2, <3>3, HashesDiffer
        <3> QED
            BY <3>4 DEF Verifies, Intact
    <2>2. ASSUME altered = {}, ~forked, NEW e \in events PROVE Intact(e)
        <3>1. e.hash # NoHash /\ e.text = "written"
            BY <2>2 DEF AuditInvariant, HashesComeFirst
        <3>2. e.hash = HashOf(e)
            BY <3>1 DEF AuditInvariant, EventsAreTyped, IsEvent, HashOf
        <3> DEFINE prior == {f \in Earlier(e) : IsLast(f, Earlier(e))}
        <3>3. Follows(e.previous, Earlier(e))
            BY <2>2, <3>1 DEF AuditInvariant, EventsFollow
        <3>4. CASE prior = {}
            BY <3>2, <3>3, <3>4 DEF Follows, Intact
        <3>5. CASE prior # {}
            <4>1. PICK f \in Earlier(e) : IsLast(f, Earlier(e)) /\ e.previous = f.hash
                BY <3>3, <3>5 DEF Follows
            <4>2. \A g \in prior : g.at = f.at /\ g \in events /\ f \in events
                <5>1. \A g \in events : g.at \in Nat
                    BY AuditAssumption DEF AuditInvariant, EventsAreTyped, IsEvent
                <5> QED
                    BY <4>1, <5>1 DEF IsLast, Earlier
            <4>3. prior = {f}
                BY <4>1, <4>2 DEF AuditInvariant, EventsAreTyped
            <4>4. (CHOOSE g \in prior : TRUE) = f
                BY <4>3
            <4> QED
                BY <3>2, <3>5, <4>1, <4>4 DEF Intact
        <3> QED
            BY <3>4, <3>5
    <2> QED
        BY <2>1, <2>2 DEF Verifies
<1> QED
    BY <1>1, AuditInvariantHolds, PTL
=============================================================================
